---- MODULE Spec2Model ----
(***************************************************************************)
(* Model of the Game service of Ftotnem/Go-Services: the Redis session     *)
(* store (online / playtime / deltatime / team / team totals / bans), the  *)
(* HTTP handlers of the Game service, the updater tick, the service        *)
(* registry and the consistent-hash assignment manager.                    *)
(*                                                                         *)
(* Time is a discrete wall clock `now` counted in sub-second units         *)
(* (SubSec units per second); Unix(t) truncates to whole seconds as        *)
(* time.Time.Unix() does.  Playtime values (Go float64 seconds) are kept   *)
(* in the same sub-second unit, so 1.0 second is the integer SubSec.       *)
(* The 6h / 24h TTLs of the playtime, deltatime and team-total keys are    *)
(* far beyond the modelled horizon and are not represented.                *)
(* Redis commands are assumed to succeed unless an action says otherwise;  *)
(* the Player service calls may fail.                                      *)
(***************************************************************************)
EXTENDS Integers, Sequences, FiniteSets, TLC

\* ---------------------------------------------------------------- bounds
SubSec == 2          \* clock units per second
StartTime == 100     \* wall clock at the start of the behaviour (far from the epoch)
MaxTime == 2         \* clock units the behaviour may run
MaxCleanup == 1      \* lazy ban-cleanup goroutines pending per player
MaxTicks == 2        \* updater tick periods elapsed
MaxSessions == 1     \* Online requests admitted past the ban check, per player
MaxSyncs == 1        \* syncer cycles started per instance
MaxCount == 4        \* players counted on the team documents, all teams together

\* ------------------------------------------------------ program constants
NoTTL == 0           \* redis SET with expiration 0: the key never expires
MinTTL == 1          \* the 1 ms TTL of a ban whose expiry is already past,
                     \* rounded up to the clock's resolution
CleanupTimeout == 2 * SubSec     \* context.WithTimeout(..., 2*time.Second)
HeartbeatTTL == 15 * SubSec      \* SERVICE_HEARTBEAT_TTL default
OnlineTTL == 15 * SubSec         \* REDIS_ONLINE_TTL default
One == SubSec                    \* the float 1.0 (seconds)

Players == {"u1"}
Teams == {"AQUA_CREEPERS"}
Instances == {"gA", "gB"}
SyncTaskKey == "global_playtime_sync_task"
RingKeys == Players \cup {SyncTaskKey}
BanDurations == {-2, -1, 0, 1}   \* duration_seconds of a ban request
BanReasons == {"", "spam"}
ProfileTotal == 10 * SubSec      \* stored total of an existing profile (10.0)

VARIABLES
  now,        \* wall clock, in sub-second units
  online,     \* online:{uuid}:      -> [has, val (unix seconds), exp]
  playtime,   \* playtime:{uuid}:    -> [has, val]
  deltatime,  \* deltatime:{uuid}:   -> [has, val]
  team,       \* team:{uuid}:        -> [has, val (team id)]
  teamTotal,  \* team_total_playtime:{team}: -> [has, val]
  banned,     \* banned:{uuid}:      -> [has, val (expiry unix seconds, 0 = permanent), exp]
  banReason,  \* ban_reason:uuid     -> [has, val (1 = some text), exp]
  registry,   \* services:game-service hash: instance -> [has, val (last_seen)]
  profile,    \* Player service documents: uuid -> [has, total, team]
  up,         \* instance -> process running
  ring,       \* instance -> members of its consistent-hash ring
  http,       \* HTTP request slots of the Game service
  upd,        \* instance -> state of its updater goroutine
  cleanup,    \* uuid -> deadlines of the pending lazy-cleanup goroutines
  epoch,      \* number of tick periods elapsed
  sess,       \* history: per uuid, what the current session started from
  tickAdds,   \* history: uuid -> tick period -> player increments applied
  banLog,     \* history: per uuid, the last ban / unban request served
  sring,      \* instance -> members of the ring of its syncer's manager
  sync,       \* instance -> state of its syncer goroutine
  teamDoc,    \* Player service team documents: team -> [player_count,
              \*   total_playtime_ticks, last_updated]
  lastSync,   \* history: the last SyncTeamTotals invocation served
  stop,       \* instance -> progress of ServiceRegistrar.Stop()
  mode        \* "serial": one HTTP request at a time; "conc": slots overlap

vars == <<now, online, playtime, deltatime, team, teamTotal, banned, banReason,
          registry, profile, up, ring, http, upd, cleanup, epoch, sess,
          tickAdds, banLog, sring, sync, teamDoc, lastSync, stop, mode>>


\* ---------------------------------------------------------- redis values
Nil == [has |-> FALSE, val |-> 0, exp |-> NoTTL]
Key(v, e) == [has |-> TRUE, val |-> v, exp |-> e]
NilV == [has |-> FALSE, val |-> 0]
Val(v) == [has |-> TRUE, val |-> v]
NilS == [has |-> FALSE, val |-> ""]
Str(s) == [has |-> TRUE, val |-> s]

\* time.Time.Unix(): whole seconds
Unix(t) == t \div SubSec

\* a SET that drops the expiration
SetWithoutTTL(v, dur) == Key(v, NoTTL)

\* redis SET key value EX/PX: expiration 0 means no TTL
SetWithTTL(v, dur) == Key(v, IF dur = 0 THEN NoTTL ELSE now + dur)

\* a key that outlives its TTL
ExpireNever(k, t) == k

\* redis key expiry at time t
Expire(k, t) == IF k.has /\ k.exp # NoTTL /\ k.exp <= t THEN Nil ELSE k

Slots == {1, 2}

\* a registrar whose Stop() was not called: sig tells that stopChan is
\* closed, done that run() has returned and closed doneChan, ret that Stop()
\* has returned
NotStopping == [sig |-> FALSE, done |-> FALSE, ret |-> FALSE]

Idle == [op |-> "idle", pc |-> "idle", u |-> "", status |-> 0,
         sawBan |-> FALSE, profOk |-> FALSE, profTotal |-> 0, profTeam |-> "",
         wasOnline |-> FALSE, forced |-> FALSE, start |-> 0, sessT |-> 0, cur |-> 0,
         newTotal |-> 0, teamId |-> NilS, pushed |-> FALSE, pushOk |-> FALSE,
         expAt |-> 0, perm |-> FALSE, reason |-> "", dur |-> 0,
         pre |-> <<>>, val |-> 0]

UpdIdle == [pc |-> "idle", todo |-> {}, cur |-> "", d |-> 0, tm |-> NilS, tick |-> 0]

\* a syncer between two cycles; n counts the cycles started, resp / err hold
\* what IsResponsible returned in the last cycle, calls / writes count the
\* Player service calls and the cache writes of that cycle, ok tells that
\* none of its calls failed, second that its SyncTeamTotals call followed a
\* finished one with the profiles unchanged, prof the profiles it aggregated
SyncIdle == [pc |-> "idle", n |-> 0, resp |-> FALSE, err |-> FALSE, keys |-> {},
             totals |-> [u \in Players |-> NilV], todo |-> {},
             agg |-> [t \in Teams |-> NilV], ttodo |-> {},
             calls |-> 0, writes |-> 0, ok |-> TRUE, second |-> FALSE,
             prof |-> <<>>]

AnyDone == \E s \in Slots : http[s].pc = "done"
AllIdle == \A s \in Slots : http[s].op = "idle"

\* a request may enter slot s
CanStart(s) ==
  /\ ~AnyDone
  /\ http[s].op = "idle"
  /\ mode = "serial" => (s = 1 /\ AllIdle)

\* the four session keys of a player, as one value
SessionKeys(u) == <<online[u], playtime[u], deltatime[u], team[u]>>

SetHttp(s, r) == http' = [http EXCEPT ![s] = r]
Finish(r, st) == [r EXCEPT !.pc = "done", !.status = st]

\* ------------------------------------------------------------- ban store
\* the ban is in effect according to the stored record (data-model reading:
\* value 0 is permanent, otherwise banned strictly before the stored second)
BanActive(u) ==
  /\ banned[u].has
  /\ (banned[u].val = 0 \/ Unix(now) < banned[u].val)

\* BanStore.IsPlayerBanned with an expiry test that forgets the
\* "expiresAtUnix > 0" conjunct
IsPlayerBannedNoPermanent(u) ==
  IF ~banned[u].has
    THEN [banned |-> FALSE, spawn |-> FALSE]
    ELSE IF Unix(now) >= banned[u].val
           THEN [banned |-> FALSE, spawn |-> TRUE]
           ELSE [banned |-> TRUE, spawn |-> FALSE]

\* BanStore.IsPlayerBanned: the answer, and whether the expired record makes
\* it start the asynchronous cleanup goroutine
IsPlayerBanned(u) ==
  IF ~banned[u].has
    THEN [banned |-> FALSE, spawn |-> FALSE]
    ELSE IF banned[u].val > 0 /\ Unix(now) >= banned[u].val
           THEN [banned |-> FALSE, spawn |-> TRUE]
           ELSE [banned |-> TRUE, spawn |-> FALSE]

\* BanStore.BanPlayer, first part: value and TTL of the ban record
BanRecord(perm, expAt) ==
  IF perm
    THEN [val |-> 0, dur |-> 0]
    ELSE [val |-> Unix(expAt),
          dur |-> IF expAt - now < 0 THEN MinTTL ELSE expAt - now]

\* BanStore.UnbanPlayer that deletes only the ban record
UnbanKeysRecordOnly(u) ==
  /\ banned' = [banned EXCEPT ![u] = Nil]
  /\ UNCHANGED banReason

\* BanStore.UnbanPlayer: DEL banKey reasonKey
UnbanKeys(u) ==
  /\ banned' = [banned EXCEPT ![u] = Nil]
  /\ banReason' = [banReason EXCEPT ![u] = Nil]

\* the goroutine started by IsPlayerBanned on an expired record: UnbanPlayer
\* under a 2 s context; past the deadline the call is abandoned
CleanupRun(u) ==
  /\ ~AnyDone
  /\ cleanup[u] # <<>>
  /\ IF now <= Head(cleanup[u])
       THEN UnbanKeys(u)
       ELSE UNCHANGED <<banned, banReason>>
  /\ cleanup' = [cleanup EXCEPT ![u] = Tail(@)]
  /\ UNCHANGED <<stop, sring, sync, teamDoc, lastSync>>
  /\ UNCHANGED <<now, online, playtime, deltatime, team, teamTotal, registry,
                 profile, up, ring, http, upd, epoch, sess, tickAdds, banLog, mode>>

\* ------------------------------------------------------------ wall clock
Tick ==
  /\ ~AnyDone
  /\ now < StartTime + MaxTime
  /\ now' = now + 1
  /\ online' = [u \in Players |-> Expire(online[u], now + 1)]
  /\ banned' = [u \in Players |-> Expire(banned[u], now + 1)]
  /\ banReason' = [u \in Players |-> Expire(banReason[u], now + 1)]
  /\ UNCHANGED <<stop, sring, sync, teamDoc, lastSync>>
  /\ UNCHANGED <<playtime, deltatime, team, teamTotal, registry, profile, up,
                 ring, http, upd, cleanup, epoch, sess, tickAdds, banLog, mode>>

\* the response of a finished request reaches the client
Return(s) ==
  /\ http[s].pc = "done"
  /\ SetHttp(s, Idle)
  /\ UNCHANGED <<stop, sring, sync, teamDoc, lastSync>>
  /\ UNCHANGED <<now, online, playtime, deltatime, team, teamTotal, banned,
                 banReason, registry, profile, up, ring, upd, cleanup, epoch,
                 sess, tickAdds, banLog, mode>>

\* ------------------------------------------------- GameService.PlayerOnline
\* HandlePlayerOnline + PlayerOnline step 1: the ban check; a banned player
\* gets 403
OnlineStart(s, u) ==
  /\ CanStart(s)
  /\ LET res == IsPlayerBanned(u)
         r0 == [Idle EXCEPT !.op = "online", !.u = u, !.sawBan = BanActive(u),
                            !.pre = SessionKeys(u)]
     IN /\ res.spawn => Len(cleanup[u]) < MaxCleanup
        /\ ~res.banned => sess[u].n < MaxSessions
        /\ cleanup' = IF res.spawn
                        THEN [cleanup EXCEPT ![u] = Append(@, now + CleanupTimeout)]
                        ELSE cleanup
        /\ IF res.banned
             THEN SetHttp(s, Finish(r0, 403))
             ELSE SetHttp(s, [r0 EXCEPT !.pc = "on_profile"])
  /\ UNCHANGED <<stop, sring, sync, teamDoc, lastSync>>
  /\ UNCHANGED <<now, online, playtime, deltatime, team, teamTotal, banned,
                 banReason, registry, profile, up, ring, upd, epoch, sess,
                 tickAdds, banLog, mode>>

\* step 2: PlayerServiceClient.GetPlayerProfile; the call may fail, and fails
\* with 404 when the profile does not exist
OnlineProfile(s) ==
  /\ ~AnyDone
  /\ http[s].pc = "on_profile"
  /\ \E ok \in {TRUE, FALSE} :
       /\ ok => profile[http[s].u].has
       /\ SetHttp(s, [http[s] EXCEPT
             !.pc = "on_settotal", !.profOk = ok,
             !.profTotal = IF ok THEN profile[http[s].u].total ELSE 0,
             !.profTeam = IF ok THEN profile[http[s].u].team ELSE ""])
  /\ UNCHANGED <<stop, sring, sync, teamDoc, lastSync>>
  /\ UNCHANGED <<now, online, playtime, deltatime, team, teamTotal, banned,
                 banReason, registry, profile, up, ring, upd, cleanup, epoch,
                 sess, tickAdds, banLog, mode>>

\* SetPlayerPlaytime(profile total, or 0.0 without a profile)
OnlineSetTotal(s) ==
  /\ ~AnyDone
  /\ http[s].pc = "on_settotal"
  /\ playtime' = [playtime EXCEPT ![http[s].u] = Val(http[s].profTotal)]
  /\ sess' = [sess EXCEPT ![http[s].u] =
                [base |-> http[s].profTotal, adds |-> 0,
                 fromProfile |-> http[s].profOk, n |-> @.n + 1]]
  /\ SetHttp(s, [http[s] EXCEPT !.pc = "on_setdelta"])
  /\ UNCHANGED <<stop, sring, sync, teamDoc, lastSync>>
  /\ UNCHANGED <<now, online, deltatime, team, teamTotal, banned, banReason,
                 registry, profile, up, ring, upd, cleanup, epoch, tickAdds,
                 banLog, mode>>

\* SetPlayerDeltaPlaytime(1.0)
OnlineSetDelta(s) ==
  /\ ~AnyDone
  /\ http[s].pc = "on_setdelta"
  /\ deltatime' = [deltatime EXCEPT ![http[s].u] = Val(One)]
  /\ SetHttp(s, [http[s] EXCEPT !.pc =
        IF http[s].profOk /\ http[s].profTeam # "" THEN "on_setteam" ELSE "on_setonline"])
  /\ UNCHANGED <<stop, sring, sync, teamDoc, lastSync>>
  /\ UNCHANGED <<now, online, playtime, team, teamTotal, banned, banReason,
                 registry, profile, up, ring, upd, cleanup, epoch, sess,
                 tickAdds, banLog, mode>>

\* RedisClient.Set(team:{uuid}:, profile.Team, 0)
OnlineSetTeam(s) ==
  /\ ~AnyDone
  /\ http[s].pc = "on_setteam"
  /\ team' = [team EXCEPT ![http[s].u] = Str(http[s].profTeam)]
  /\ SetHttp(s, [http[s] EXCEPT !.pc = "on_setonline"])
  /\ UNCHANGED <<stop, sring, sync, teamDoc, lastSync>>
  /\ UNCHANGED <<now, online, playtime, deltatime, teamTotal, banned, banReason,
                 registry, profile, up, ring, upd, cleanup, epoch, sess,
                 tickAdds, banLog, mode>>

\* step 3: OnlinePlayersStore.SetPlayerOnline(now); 200
OnlineSetOnline(s) ==
  /\ ~AnyDone
  /\ http[s].pc = "on_setonline"
  /\ online' = [online EXCEPT ![http[s].u] = SetWithTTL(Unix(now), OnlineTTL)]
  /\ SetHttp(s, Finish(http[s], 200))
  /\ UNCHANGED <<stop, sring, sync, teamDoc, lastSync>>
  /\ UNCHANGED <<now, playtime, deltatime, team, teamTotal, banned, banReason,
                 registry, profile, up, ring, upd, cleanup, epoch, sess,
                 tickAdds, banLog, mode>>

\* ------------------------------------------------ GameService.PlayerOffline
\* the request enters HandlePlayerOffline
OfflineStart(s, u) ==
  /\ CanStart(s)
  /\ SetHttp(s, [Idle EXCEPT !.op = "offline", !.u = u, !.pc = "off_get",
                             !.pre = SessionKeys(u)])
  /\ UNCHANGED <<stop, sring, sync, teamDoc, lastSync>>
  /\ UNCHANGED <<now, online, playtime, deltatime, team, teamTotal, banned,
                 banReason, registry, profile, up, ring, upd, cleanup, epoch,
                 sess, tickAdds, banLog, mode>>

\* the status a failed PlayerOffline ends with: HandlePlayerOffline answers
\* 500, BanPlayer only logs the failure
OfflineErrStatus(op) == IF op = "ban" THEN 200 ELSE 500

\* steps 1-2: GetPlayerOnlineTime and time.Since(start).  A missing key comes
\* back as an error wrapping ErrRedisKeyNotFound, which is not redis.Nil, so
\* PlayerOffline returns the error.
OffGet(s) ==
  /\ ~AnyDone
  /\ http[s].pc = "off_get"
  /\ LET u == http[s].u
     IN IF ~online[u].has
          THEN SetHttp(s, Finish(http[s], OfflineErrStatus(http[s].op)))
          ELSE SetHttp(s, [http[s] EXCEPT !.pc = "off_gettotal",
                             !.wasOnline = TRUE,
                             !.start = online[u].val,
                             !.sessT = now - online[u].val * SubSec])
  /\ UNCHANGED <<stop, sring, sync, teamDoc, lastSync>>
  /\ UNCHANGED <<now, online, playtime, deltatime, team, teamTotal, banned,
                 banReason, registry, profile, up, ring, upd, cleanup, epoch,
                 sess, tickAdds, banLog, mode>>


\* an Offline that stores and persists the accumulated total as it is
NewTotalAsAccumulated(cur, sessT) == cur

\* the total PlayerOffline stores and persists
NewTotal(cur, sessT) == cur + sessT

\* step 3: GetPlayerPlaytime (missing key reads as 0)
OffGetTotal(s) ==
  /\ ~AnyDone
  /\ http[s].pc = "off_gettotal"
  /\ LET u == http[s].u
         c == IF playtime[u].has THEN playtime[u].val ELSE 0
     IN SetHttp(s, [http[s] EXCEPT !.pc = "off_settotal", !.cur = c,
                                   !.newTotal = NewTotal(c, http[s].sessT)])
  /\ UNCHANGED <<stop, sring, sync, teamDoc, lastSync>>
  /\ UNCHANGED <<now, online, playtime, deltatime, team, teamTotal, banned,
                 banReason, registry, profile, up, ring, upd, cleanup, epoch,
                 sess, tickAdds, banLog, mode>>

\* SetPlayerPlaytime(newTotalPlaytime)
OffSetTotal(s) ==
  /\ ~AnyDone
  /\ http[s].pc = "off_settotal"
  /\ playtime' = [playtime EXCEPT ![http[s].u] = Val(http[s].newTotal)]
  /\ SetHttp(s, [http[s] EXCEPT !.pc = "off_setdelta"])
  /\ UNCHANGED <<stop, sring, sync, teamDoc, lastSync>>
  /\ UNCHANGED <<now, online, deltatime, team, teamTotal, banned, banReason,
                 registry, profile, up, ring, upd, cleanup, epoch, sess,
                 tickAdds, banLog, mode>>

\* SetPlayerDeltaPlaytime(sessionPlaytime)
OffSetDelta(s) ==
  /\ ~AnyDone
  /\ http[s].pc = "off_setdelta"
  /\ deltatime' = [deltatime EXCEPT ![http[s].u] = Val(http[s].sessT)]
  /\ SetHttp(s, [http[s] EXCEPT !.pc = "off_getteam"])
  /\ UNCHANGED <<stop, sring, sync, teamDoc, lastSync>>
  /\ UNCHANGED <<now, online, playtime, team, teamTotal, banned, banReason,
                 registry, profile, up, ring, upd, cleanup, epoch, sess,
                 tickAdds, banLog, mode>>

\* step 4: GET team:{uuid}:
OffGetTeam(s) ==
  /\ ~AnyDone
  /\ http[s].pc = "off_getteam"
  /\ SetHttp(s, [http[s] EXCEPT !.teamId = team[http[s].u],
        !.pc = IF team[http[s].u].has THEN "off_incrteam" ELSE "off_delonline"])
  /\ UNCHANGED <<stop, sring, sync, teamDoc, lastSync>>
  /\ UNCHANGED <<now, online, playtime, deltatime, team, teamTotal, banned,
                 banReason, registry, profile, up, ring, upd, cleanup, epoch,
                 sess, tickAdds, banLog, mode>>

\* redis INCRBYFLOAT: a missing key counts as 0
IncrByFloat(k, d) == Val((IF k.has THEN k.val ELSE 0) + d)

\* TeamPlaytimeStore.IncrementTeamPlaytime(team, sessionPlaytime)
OffIncrTeam(s) ==
  /\ ~AnyDone
  /\ http[s].pc = "off_incrteam"
  /\ teamTotal' = [teamTotal EXCEPT ![http[s].teamId.val] =
                     IncrByFloat(@, http[s].sessT)]
  /\ SetHttp(s, [http[s] EXCEPT !.pc = "off_delonline"])
  /\ UNCHANGED <<stop, sring, sync, teamDoc, lastSync>>
  /\ UNCHANGED <<now, online, playtime, deltatime, team, banned, banReason,
                 registry, profile, up, ring, upd, cleanup, epoch, sess,
                 tickAdds, banLog, mode>>

\* step 5: RemovePlayerOnline
OffDelOnline(s) ==
  /\ ~AnyDone
  /\ http[s].pc = "off_delonline"
  /\ online' = [online EXCEPT ![http[s].u] = Nil]
  /\ SetHttp(s, [http[s] EXCEPT !.pc = "off_push"])
  /\ UNCHANGED <<stop, sring, sync, teamDoc, lastSync>>
  /\ UNCHANGED <<now, playtime, deltatime, team, teamTotal, banned, banReason,
                 registry, profile, up, ring, upd, cleanup, epoch, sess,
                 tickAdds, banLog, mode>>

\* step 6: PlayerServiceClient.UpdatePlayerPlaytime(newTotalPlaytime); a
\* failure (or a missing profile) is only logged
OffPush(s) ==
  /\ ~AnyDone
  /\ http[s].pc = "off_push"
  /\ \E ok \in {TRUE, FALSE} :
       /\ ok => profile[http[s].u].has
       /\ profile' = IF ok
                       THEN [profile EXCEPT ![http[s].u].total = http[s].newTotal]
                       ELSE profile
       /\ SetHttp(s, [http[s] EXCEPT !.pc = "off_delteam", !.pushed = TRUE,
                                     !.pushOk = ok])
  /\ UNCHANGED <<stop, sring, sync, teamDoc, lastSync>>
  /\ UNCHANGED <<now, online, playtime, deltatime, team, teamTotal, banned,
                 banReason, registry, up, ring, upd, cleanup, epoch, sess,
                 tickAdds, banLog, mode>>

\* step 7: DEL team:{uuid}:, then return nil
OffDelTeam(s) ==
  /\ ~AnyDone
  /\ http[s].pc = "off_delteam"
  /\ team' = [team EXCEPT ![http[s].u] = NilS]
  /\ SetHttp(s, Finish(http[s], 200))
  /\ UNCHANGED <<stop, sring, sync, teamDoc, lastSync>>
  /\ UNCHANGED <<now, online, playtime, deltatime, teamTotal, banned, banReason,
                 registry, profile, up, ring, upd, cleanup, epoch, sess,
                 tickAdds, banLog, mode>>

\* ------------------------------------------- GameService.BanPlayer / Unban
Horizon == StartTime + MaxTime

\* HandleBanPlayer: duration -1 is refused with 400; 0 is permanent; else the
\* ban expires at now + duration.  Then BanStore.BanPlayer writes the record.
\* (A temporary ban must end within the modelled horizon.)
BanStart(s, u, durSec, reason) ==
  /\ CanStart(s)
  /\ now + durSec * SubSec <= Horizon
  /\ LET r0 == [Idle EXCEPT !.op = "ban", !.u = u, !.reason = reason,
                            !.perm = (durSec = 0),
                            !.expAt = IF durSec = 0 THEN 0 ELSE now + durSec * SubSec,
                            !.pre = SessionKeys(u)]
         rec == BanRecord(r0.perm, r0.expAt)
     IN IF durSec = -1
          THEN /\ SetHttp(s, Finish(r0, 400))
               /\ UNCHANGED <<banned, banLog>>
          ELSE /\ banned' = [banned EXCEPT ![u] = SetWithTTL(rec.val, rec.dur)]
               /\ banLog' = [banLog EXCEPT ![u] =
                               [kind |-> IF r0.perm THEN "perm" ELSE "temp",
                                val |-> rec.val]]
               /\ SetHttp(s, [r0 EXCEPT !.dur = rec.dur,
                     !.pc = IF reason # "" THEN "ban_reason" ELSE "ban_isonline"])
  /\ UNCHANGED <<stop, sring, sync, teamDoc, lastSync>>
  /\ UNCHANGED <<now, online, playtime, deltatime, team, teamTotal, banReason,
                 registry, profile, up, ring, upd, cleanup, epoch, sess,
                 tickAdds, mode>>

\* BanStore.BanPlayer: the reason is stored with the duration computed for
\* the record
BanSetReason(s) ==
  /\ ~AnyDone
  /\ http[s].pc = "ban_reason"
  /\ banReason' = [banReason EXCEPT ![http[s].u] = SetWithTTL(1, http[s].dur)]
  /\ SetHttp(s, [http[s] EXCEPT !.pc = "ban_isonline"])
  /\ UNCHANGED <<stop, sring, sync, teamDoc, lastSync>>
  /\ UNCHANGED <<now, online, playtime, deltatime, team, teamTotal, banned,
                 registry, profile, up, ring, upd, cleanup, epoch, sess,
                 tickAdds, banLog, mode>>

\* GameService.BanPlayer: IsPlayerOnline, then PlayerOffline when online
BanIsOnline(s) ==
  /\ ~AnyDone
  /\ http[s].pc = "ban_isonline"
  /\ IF online[http[s].u].has
       THEN SetHttp(s, [http[s] EXCEPT !.pc = "off_get", !.forced = TRUE])
       ELSE SetHttp(s, Finish(http[s], 200))
  /\ UNCHANGED <<stop, sring, sync, teamDoc, lastSync>>
  /\ UNCHANGED <<now, online, playtime, deltatime, team, teamTotal, banned,
                 banReason, registry, profile, up, ring, upd, cleanup, epoch,
                 sess, tickAdds, banLog, mode>>

\* HandleUnbanPlayer + GameService.UnbanPlayer + BanStore.UnbanPlayer: one
\* DEL of both keys; when the command fails nothing is deleted and the
\* handler answers 500
UnbanStart(s, u) ==
  /\ CanStart(s)
  /\ \E ok \in {TRUE, FALSE} :
       LET r0 == [Idle EXCEPT !.op = "unban", !.u = u,
                              !.pre = <<banned[u], banReason[u]>>]
       IN IF ok
            THEN /\ UnbanKeys(u)
                 /\ banLog' = [banLog EXCEPT ![u] = [kind |-> "unban", val |-> 0]]
                 /\ SetHttp(s, Finish(r0, 200))
            ELSE /\ UNCHANGED <<banned, banReason, banLog>>
                 /\ SetHttp(s, Finish(r0, 500))
  /\ UNCHANGED <<stop, sring, sync, teamDoc, lastSync>>
  /\ UNCHANGED <<now, online, playtime, deltatime, team, teamTotal, registry,
                 profile, up, ring, upd, cleanup, epoch, sess, tickAdds, mode>>

\* ------------------------------------------- refresh-online and deltatime
\* HandleRefreshOnline + RefreshPlayerOnlineStatus: one EXPIRE online:{uuid}:
\* with the online TTL.  For a missing key EXPIRE answers false, the store
\* returns a plain error, the service passes it on (it is not redis.Nil) and
\* the handler answers 500.
RefreshOnline(s, u) ==
  /\ CanStart(s)
  /\ LET r == [Idle EXCEPT !.op = "refresh", !.u = u, !.pre = SessionKeys(u),
                           !.wasOnline = online[u].has]
     IN IF online[u].has
          THEN /\ online' = [online EXCEPT ![u].exp = now + OnlineTTL]
               /\ SetHttp(s, Finish(r, 200))
          ELSE /\ UNCHANGED online
               /\ SetHttp(s, Finish(r, 500))
  /\ UNCHANGED <<stop, sring, sync, teamDoc, lastSync>>
  /\ UNCHANGED <<now, playtime, deltatime, team, teamTotal, banned, banReason,
                 registry, profile, up, ring, upd, cleanup, epoch, sess,
                 tickAdds, banLog, mode>>

\* a delta lookup that answers the default whatever is stored
GetPlayerDeltaPlaytimeDefaultOnly(u) == One

\* GameService.GetPlayerDeltaPlaytime: the stored delta, 1.0 when the store
\* reports an error (the key is missing)
GetPlayerDeltaPlaytime(u) ==
  IF deltatime[u].has THEN deltatime[u].val ELSE One

\* GET /game/player/{uuid}/deltatime
GetDelta(s, u) ==
  /\ CanStart(s)
  /\ SetHttp(s, Finish([Idle EXCEPT !.op = "delta", !.u = u,
                                    !.val = GetPlayerDeltaPlaytime(u)], 200))
  /\ UNCHANGED <<stop, sring, sync, teamDoc, lastSync>>
  /\ UNCHANGED <<now, online, playtime, deltatime, team, teamTotal, banned,
                 banReason, registry, profile, up, ring, upd, cleanup, epoch,
                 sess, tickAdds, banLog, mode>>

\* ------------------------------------------ PlayerService.CreateProfile
\* a lookup that never finds the profile
ProfileExistsNever(u) == FALSE

\* GetPlayerByUUID returned a document
ProfileExists(u) == profile[u].has

RECURSIVE SumCounts(_)
\* the players counted on the team documents of S
SumCounts(S) ==
  IF S = {} THEN 0
  ELSE LET t == CHOOSE x \in S : TRUE
       IN (IF teamDoc[t].has THEN teamDoc[t].player_count ELSE 0) + SumCounts(S \ {t})

Counted == SumCounts(DOMAIN teamDoc)

\* the creations that have not incremented a count yet
InFlight ==
  Cardinality({s \in Slots : http[s].op = "create" /\ http[s].pc \in {"cr_team", "cr_incr"}})

\* CreateProfileHandler + CreateProfile step 1: an existing profile is
\* ErrProfileAlreadyExists, answered 409
CreateStart(s, u) ==
  /\ CanStart(s)
  /\ ProfileExists(u) \/ Counted + InFlight < MaxCount
  /\ LET r == [Idle EXCEPT !.op = "create", !.u = u,
                           !.pre = <<profile[u], teamDoc>>]
     IN IF ProfileExists(u)
          THEN SetHttp(s, Finish([r EXCEPT !.profOk = TRUE], 409))
          ELSE SetHttp(s, [r EXCEPT !.pc = "cr_team"])
  /\ UNCHANGED <<stop, sring, sync, teamDoc, lastSync>>
  /\ UNCHANGED <<now, online, playtime, deltatime, team, teamTotal, banned,
                 banReason, registry, profile, up, ring, upd, cleanup, epoch,
                 sess, tickAdds, banLog, mode>>

\* cfg.DefaultTeams, the teams EnsureTeamsExist creates at start-up
DefaultTeams == {"AQUA_CREEPERS", "PURPLE_SWORDERS"}

\* the two names CreateProfile falls back to
FallbackTeams == {"AQUA_CREEPERS", "PURPLE_AXOLOTLS"}

\* the team collection may fail to answer only in the faulty environment
Faulty == mode = "faults"

\* GetAllTeams: the names of the stored team documents
GetAllTeams == {t \in DOMAIN teamDoc : teamDoc[t].has}

\* GetTeamPlayerCount: a team without a document counts 0
GetTeamPlayerCount(t) ==
  IF t \in DOMAIN teamDoc /\ teamDoc[t].has THEN teamDoc[t].player_count ELSE 0

\* every counted team, whatever its count
LeastPopulatedAny(counted) == counted

\* the counted teams with the fewest players
LeastPopulated(counted) ==
  {t \in counted :
     \A x \in counted : GetTeamPlayerCount(t) <= GetTeamPlayerCount(x)}

\* step 2: GetAllTeams (the fallback pair when it fails), GetTeamPlayerCount
\* of each (a failed read skips the team), random pick among the least
\* populated, or among the fallback pair when none was counted
CreateAssign(s) ==
  /\ ~AnyDone
  /\ http[s].pc = "cr_team"
  /\ \E listOk \in BOOLEAN :
       LET allTeams == IF listOk THEN GetAllTeams ELSE FallbackTeams
       IN \E failed \in SUBSET allTeams :
            /\ ~Faulty => (listOk /\ failed = {})
            /\ LET least == LeastPopulated(allTeams \ failed)
                   cands == IF least # {} THEN least ELSE FallbackTeams
               IN \E t \in cands :
                    SetHttp(s, [http[s] EXCEPT !.profTeam = t, !.pc = "cr_incr"])
  /\ UNCHANGED <<stop, sring, sync, teamDoc, lastSync>>
  /\ UNCHANGED <<now, online, playtime, deltatime, team, teamTotal, banned,
                 banReason, registry, profile, up, ring, upd, cleanup, epoch,
                 sess, tickAdds, banLog, mode>>

\* the increment of player_count on the team document (created by the
\* increment when the team has none)
IncrementTeamPlayerCountAndGet(d) ==
  IF d.has THEN [d EXCEPT !.player_count = @ + 1]
           ELSE [has |-> TRUE, player_count |-> 1, total_playtime_ticks |-> 0,
                 last_updated |-> now]

\* a number taken from the count read when the request arrived
NewCountFromSnapshot(s, d) ==
  LET was == http[s].pre[2][http[s].profTeam]
  IN IF was.has THEN was.player_count + 1 ELSE 1

\* newCount: the count the increment returned
NewCount(s, d) == d.player_count

\* step 3: generateTeamUsername: increment the team's player_count and read
\* the new value N in one operation; an error ends the request with 500
CreateIncr(s) ==
  /\ ~AnyDone
  /\ http[s].pc = "cr_incr"
  /\ LET t == http[s].profTeam
     IN \E ok \in BOOLEAN :
          /\ (~Faulty /\ teamDoc[t].has) => ok
          /\ IF ok
               THEN LET d == IncrementTeamPlayerCountAndGet(teamDoc[t])
                    IN /\ teamDoc' = [teamDoc EXCEPT ![t] = d]
                       /\ SetHttp(s, [http[s] EXCEPT !.pc = "cr_insert",
                                                     !.val = NewCount(s, d)])
               ELSE /\ UNCHANGED teamDoc
                    /\ SetHttp(s, Finish(http[s], 500))
  /\ UNCHANGED <<stop, sring, sync, lastSync>>
  /\ UNCHANGED <<now, online, playtime, deltatime, team, teamTotal, banned,
                 banReason, registry, profile, up, ring, upd, cleanup, epoch,
                 sess, tickAdds, banLog, mode>>

\* step 4: CreatePlayer: InsertOne of a profile with total 0 and the team
\* username number N; a duplicate key or a failed insert is an error,
\* answered 500
CreateInsert(s) ==
  /\ ~AnyDone
  /\ http[s].pc = "cr_insert"
  /\ \E ok \in BOOLEAN :
       /\ ~Faulty => ok
       /\ IF profile[http[s].u].has \/ ~ok
            THEN /\ UNCHANGED profile
                 /\ SetHttp(s, Finish(http[s], 500))
            ELSE /\ profile' = [profile EXCEPT ![http[s].u] =
                                  [has |-> TRUE, total |-> 0,
                                   team |-> http[s].profTeam, num |-> http[s].val]]
                 /\ SetHttp(s, Finish(http[s], 201))
  /\ UNCHANGED <<stop, sring, sync, teamDoc, lastSync>>
  /\ UNCHANGED <<now, online, playtime, deltatime, team, teamTotal, banned,
                 banReason, registry, up, ring, upd, cleanup, epoch, sess,
                 tickAdds, banLog, mode>>

\* ------------------------------------------- ServiceAssignmentManager
Min(S) == CHOOSE x \in S : \A y \in S : x <= y

\* consistent.Add: the points a member occupies on the hash circle
VNodes(m) == IF m = "gA" THEN {1, 5} ELSE {3, 7}

\* the point a key hashes to
KeyHash(k) == IF k = SyncTaskKey THEN 4 ELSE 2

Circle(M) == UNION {VNodes(m) : m \in M}

\* consistent.Get: the member owning the first point after the key's hash,
\* wrapping around to the first point of the circle
RingGet(M, k) ==
  LET above == {p \in Circle(M) : p > KeyHash(k)}
      pos == IF above = {} THEN Min(Circle(M)) ELSE Min(above)
  IN CHOOSE m \in M : pos \in VNodes(m)

\* IsResponsible that compares the owner with the wrong id
IsResponsibleOther(i, k) ==
  IF ring[i] = {}
    THEN [resp |-> FALSE, err |-> TRUE]
    ELSE [resp |-> RingGet(ring[i], k) # i, err |-> FALSE]

\* IsResponsible that takes an empty ring for its own
IsResponsibleEmptyOwns(i, k) ==
  IF ring[i] = {}
    THEN [resp |-> TRUE, err |-> FALSE]
    ELSE [resp |-> RingGet(ring[i], k) = i, err |-> FALSE]

\* ServiceAssignmentManager.IsResponsible: an empty ring is an error
IsResponsible(i, k) ==
  IF ring[i] = {}
    THEN [resp |-> FALSE, err |-> TRUE]
    ELSE [resp |-> RingGet(ring[i], k) = i, err |-> FALSE]

\* RegistryClient.GetActiveServices: last_seen, written in unix seconds, is
\* read back with time.UnixMilli, i.e. as a count of the clock's finest unit
GetActiveServices ==
  {j \in Instances : registry[j].has /\ now - registry[j].val <= HeartbeatTTL}

\* process start: NewServiceAssignmentManager puts the instance itself on
\* its ring; the ticker of its updater fires first one period after the start
StartInstance(i) ==
  /\ ~AnyDone
  /\ ~up[i]
  /\ up' = [up EXCEPT ![i] = TRUE]
  /\ ring' = [ring EXCEPT ![i] = {i}]
  /\ upd' = [upd EXCEPT ![i] = [UpdIdle EXCEPT !.tick = epoch]]
  /\ sring' = [sring EXCEPT ![i] = {i}]
  /\ sync' = [sync EXCEPT ![i] = [SyncIdle EXCEPT !.n = sync[i].n]]
  /\ stop' = [stop EXCEPT ![i] = NotStopping]
  /\ UNCHANGED <<teamDoc, lastSync>>
  /\ UNCHANGED <<now, online, playtime, deltatime, team, teamTotal, banned,
                 banReason, registry, profile, http, cleanup, epoch, sess,
                 tickAdds, banLog, mode>>

\* the process dies without running Stop()
CrashInstance(i) ==
  /\ ~AnyDone
  /\ up[i]
  /\ up' = [up EXCEPT ![i] = FALSE]
  /\ ring' = [ring EXCEPT ![i] = {}]
  /\ upd' = [upd EXCEPT ![i] = UpdIdle]
  /\ sring' = [sring EXCEPT ![i] = {}]
  /\ sync' = [sync EXCEPT ![i] = [SyncIdle EXCEPT !.n = sync[i].n]]
  /\ UNCHANGED <<stop, teamDoc, lastSync>>
  /\ UNCHANGED <<now, online, playtime, deltatime, team, teamTotal, banned,
                 banReason, registry, profile, http, cleanup, epoch, sess,
                 tickAdds, banLog, mode>>

\* ServiceRegistrar.registerService: HSET with LastSeen = time.Now().Unix()
RegisterService(i) ==
  /\ ~AnyDone
  /\ up[i]
  /\ ~stop[i].done
  /\ registry[i] # Val(Unix(now))
  /\ registry' = [registry EXCEPT ![i] = Val(Unix(now))]
  /\ UNCHANGED <<stop, sring, sync, teamDoc, lastSync>>
  /\ UNCHANGED <<now, online, playtime, deltatime, team, teamTotal, banned,
                 banReason, profile, up, ring, http, upd, cleanup, epoch, sess,
                 tickAdds, banLog, mode>>

\* ServiceRegistrar.performCleanup: HDEL of every entry older than the TTL
PerformCleanup(i) ==
  /\ ~AnyDone
  /\ up[i]
  /\ \E j \in Instances : registry[j].has /\ j \notin GetActiveServices
  /\ registry' = [j \in Instances |->
                    IF j \in GetActiveServices THEN registry[j] ELSE NilV]
  /\ UNCHANGED <<stop, sring, sync, teamDoc, lastSync>>
  /\ UNCHANGED <<now, online, playtime, deltatime, team, teamTotal, banned,
                 banReason, profile, up, ring, http, upd, cleanup, epoch, sess,
                 tickAdds, banLog, mode>>

\* ServiceRegistrar.Stop, first statement: close(stopChan)
StopSignal(i) ==
  /\ ~AnyDone
  /\ up[i]
  /\ ~stop[i].sig
  /\ stop' = [stop EXCEPT ![i].sig = TRUE]
  /\ UNCHANGED <<sring, sync, teamDoc, lastSync>>
  /\ UNCHANGED <<now, online, playtime, deltatime, team, teamTotal, banned,
                 banReason, registry, profile, up, ring, http, upd, cleanup,
                 epoch, sess, tickAdds, banLog, mode>>

\* ServiceRegistrar.run: the select takes <-stopChan, run returns and its
\* deferred close(doneChan) runs
RunExit(i) ==
  /\ ~AnyDone
  /\ up[i]
  /\ stop[i].sig /\ ~stop[i].done
  /\ stop' = [stop EXCEPT ![i].done = TRUE]
  /\ UNCHANGED <<sring, sync, teamDoc, lastSync>>
  /\ UNCHANGED <<now, online, playtime, deltatime, team, teamTotal, banned,
                 banReason, registry, profile, up, ring, http, upd, cleanup,
                 epoch, sess, tickAdds, banLog, mode>>

\* a Stop() that does not wait for the heartbeat loop
StopWaitedNot(st) == TRUE

\* ServiceRegistrar.Stop: <-doneChan lets Stop go on once run has returned
StopWaited(st) == st.done

\* ServiceRegistrar.Stop after the wait: HDEL of the instance's own field
StopHDel(i) ==
  /\ ~AnyDone
  /\ up[i]
  /\ stop[i].sig /\ ~stop[i].ret
  /\ StopWaited(stop[i])
  /\ registry' = [registry EXCEPT ![i] = NilV]
  /\ stop' = [stop EXCEPT ![i].ret = TRUE]
  /\ UNCHANGED <<sring, sync, teamDoc, lastSync>>
  /\ UNCHANGED <<now, online, playtime, deltatime, team, teamTotal, banned,
                 banReason, profile, up, ring, http, upd, cleanup, epoch,
                 sess, tickAdds, banLog, mode>>

\* ServiceAssignmentManager.updateConsistentHashRing
UpdateRing(i) ==
  /\ ~AnyDone
  /\ up[i]
  /\ GetActiveServices # ring[i]
  /\ ring' = [ring EXCEPT ![i] = GetActiveServices]
  /\ UNCHANGED <<stop, sring, sync, teamDoc, lastSync>>
  /\ UNCHANGED <<now, online, playtime, deltatime, team, teamTotal, banned,
                 banReason, registry, profile, up, http, upd, cleanup, epoch,
                 sess, tickAdds, banLog, mode>>

\* ------------------------------------------------------------ GameUpdater
\* the ticker of the updaters fires: one more tick period
AdvanceEpoch ==
  /\ ~AnyDone
  /\ epoch < MaxTicks
  /\ epoch' = epoch + 1
  /\ UNCHANGED <<stop, sring, sync, teamDoc, lastSync>>
  /\ UNCHANGED <<now, online, playtime, deltatime, team, teamTotal, banned,
                 banReason, registry, profile, up, ring, http, upd, cleanup,
                 sess, tickAdds, banLog, mode>>

SetUpd(i, r) == upd' = [upd EXCEPT ![i] = r]

\* performGameTick, first half: GetAllOnlinePlayers, then keep the uuids
\* this instance is responsible for (a failed check skips the uuid)
UpdScan(i) ==
  /\ ~AnyDone
  /\ up[i]
  /\ upd[i].pc = "idle"
  /\ upd[i].tick < epoch
  /\ LET onlineUUIDs == {u \in Players : online[u].has}
         todo == {u \in onlineUUIDs :
                    ~IsResponsible(i, u).err /\ IsResponsible(i, u).resp}
     IN SetUpd(i, [UpdIdle EXCEPT !.tick = epoch, !.todo = todo,
                      !.pc = IF todo = {} THEN "idle" ELSE "loop"])
  /\ UNCHANGED <<stop, sring, sync, teamDoc, lastSync>>
  /\ UNCHANGED <<now, online, playtime, deltatime, team, teamTotal, banned,
                 banReason, registry, profile, up, ring, http, cleanup, epoch,
                 sess, tickAdds, banLog, mode>>

\* where the loop over playersToUpdate goes after finishing uuid u
AfterPlayer(r, u) ==
  [r EXCEPT !.todo = @ \ {u}, !.cur = "", !.d = 0, !.tm = NilS,
            !.pc = IF r.todo \ {u} = {} THEN "idle" ELSE "loop"]

\* IncrementPlayerPlaytime step 1-2: GET deltatime; no key: return
UpdGetDelta(i, u) ==
  /\ ~AnyDone
  /\ upd[i].pc = "loop"
  /\ u \in upd[i].todo
  /\ IF ~deltatime[u].has
       THEN SetUpd(i, AfterPlayer(upd[i], u))
       ELSE SetUpd(i, [upd[i] EXCEPT !.cur = u, !.d = deltatime[u].val,
                         !.pc = IF deltatime[u].val <= 0 THEN "deldelta" ELSE "getteam"])
  /\ UNCHANGED <<stop, sring, sync, teamDoc, lastSync>>
  /\ UNCHANGED <<now, online, playtime, deltatime, team, teamTotal, banned,
                 banReason, registry, profile, up, ring, http, cleanup, epoch,
                 sess, tickAdds, banLog, mode>>

\* a delta key that is left in place
ConsumeDeltaKeep(k) == k

\* redisClient.Del(deltaKey)
ConsumeDelta(k) == NilV

\* a non-positive delta is deleted without an increment
UpdDelDelta(i) ==
  /\ ~AnyDone
  /\ upd[i].pc = "deldelta"
  /\ deltatime' = [deltatime EXCEPT ![upd[i].cur] = ConsumeDelta(@)]
  /\ SetUpd(i, AfterPlayer(upd[i], upd[i].cur))
  /\ UNCHANGED <<stop, sring, sync, teamDoc, lastSync>>
  /\ UNCHANGED <<now, online, playtime, team, teamTotal, banned, banReason,
                 registry, profile, up, ring, http, cleanup, epoch, sess,
                 tickAdds, banLog, mode>>

\* step 3: GET team:{uuid}:
UpdGetTeam(i) ==
  /\ ~AnyDone
  /\ upd[i].pc = "getteam"
  /\ SetUpd(i, [upd[i] EXCEPT !.tm = team[upd[i].cur], !.pc = "exec"])
  /\ UNCHANGED <<stop, sring, sync, teamDoc, lastSync>>
  /\ UNCHANGED <<now, online, playtime, deltatime, team, teamTotal, banned,
                 banReason, registry, profile, up, ring, http, cleanup, epoch,
                 sess, tickAdds, banLog, mode>>


\* what the pipeline of IncrementPlayerPlaytime does to the delta key:
\* nothing, it holds only the INCRBYFLOAT commands
ExecDelta(u) == deltatime

\* a pipeline that charges some team when the player has none
ExecTeamTotalAlways(tm, d) ==
  [teamTotal EXCEPT ![IF tm.has THEN tm.val ELSE CHOOSE t \in Teams : TRUE] =
     IncrByFloat(@, d)]

\* what the pipeline does to the team totals: INCRBYFLOAT on the team that
\* was read, nothing when the team key was missing
ExecTeamTotal(tm, d) ==
  IF tm.has THEN [teamTotal EXCEPT ![tm.val] = IncrByFloat(@, d)] ELSE teamTotal

\* step 4: the pipeline: INCRBYFLOAT playtime, and INCRBYFLOAT team total
\* when the player has a team
UpdExec(i) ==
  /\ ~AnyDone
  /\ upd[i].pc = "exec"
  /\ LET u == upd[i].cur
         d == upd[i].d
     IN /\ playtime' = [playtime EXCEPT ![u] = IncrByFloat(@, d)]
        /\ teamTotal' = ExecTeamTotal(upd[i].tm, d)
        /\ deltatime' = ExecDelta(u)
        /\ sess' = [sess EXCEPT ![u].adds = @ + 1]
        /\ tickAdds' = [tickAdds EXCEPT ![u][upd[i].tick] = @ + 1]
        /\ SetUpd(i, AfterPlayer(upd[i], u))
  /\ UNCHANGED <<stop, sring, sync, teamDoc, lastSync>>
  /\ UNCHANGED <<now, online, team, banned, banReason, registry, profile, up,
                 ring, http, cleanup, epoch, banLog, mode>>

\* ---------------------------------------------------------- PlaytimeSyncer
\* the manager the syncer builds for itself: its IsResponsible on the sentinel
SyncerIsResponsible(i) ==
  IF sring[i] = {}
    THEN [resp |-> FALSE, err |-> TRUE]
    ELSE [resp |-> RingGet(sring[i], SyncTaskKey) = i, err |-> FALSE]

\* updateConsistentHashRing of the syncer's manager
SyncUpdateRing(i) ==
  /\ ~AnyDone
  /\ up[i]
  /\ GetActiveServices # sring[i]
  /\ sring' = [sring EXCEPT ![i] = GetActiveServices]
  /\ UNCHANGED <<stop, sync, teamDoc, lastSync>>
  /\ UNCHANGED <<now, online, playtime, deltatime, team, teamTotal, banned,
                 banReason, registry, profile, up, ring, http, upd, cleanup,
                 epoch, sess, tickAdds, banLog, mode>>

SetSync(i, r) == sync' = [sync EXCEPT ![i] = r]

\* a cycle that goes on although the leadership check failed
IsLeaderIgnoringErr(r) == r.resp \/ r.err

\* performGlobalSync goes on only when IsResponsible returned (true, nil)
IsLeader(r) == ~r.err /\ r.resp

\* the ticker fires: performGlobalSync up to the leadership check
SyncBegin(i) ==
  /\ ~AnyDone
  /\ up[i]
  /\ sync[i].pc = "idle"
  /\ sync[i].n < MaxSyncs
  /\ LET r == SyncerIsResponsible(i)
         c == [SyncIdle EXCEPT !.n = sync[i].n + 1, !.resp = r.resp,
                               !.err = r.err,
                               !.totals = [u \in DOMAIN playtime |-> NilV]]
     IN SetSync(i, IF IsLeader(r) THEN [c EXCEPT !.pc = "scan"] ELSE c)
  /\ UNCHANGED <<stop, sring, teamDoc, lastSync>>
  /\ UNCHANGED <<now, online, playtime, deltatime, team, teamTotal, banned,
                 banReason, registry, profile, up, ring, http, upd, cleanup,
                 epoch, sess, tickAdds, banLog, mode>>

\* GetAllPlayerPlaytimes: SCAN playtime:{*}:
SyncScan(i) ==
  /\ ~AnyDone
  /\ sync[i].pc = "scan"
  /\ LET keys == {u \in DOMAIN playtime : playtime[u].has}
     IN SetSync(i, [sync[i] EXCEPT !.keys = keys,
                      !.pc = IF keys = {} THEN "sync" ELSE "get"])
  /\ UNCHANGED <<stop, sring, teamDoc, lastSync>>
  /\ UNCHANGED <<now, online, playtime, deltatime, team, teamTotal, banned,
                 banReason, registry, profile, up, ring, http, upd, cleanup,
                 epoch, sess, tickAdds, banLog, mode>>

\* GetAllPlayerPlaytimes: GET of one scanned key; after the last key the
\* backup loop starts over the totals that were read
SyncGet(i, u) ==
  /\ ~AnyDone
  /\ sync[i].pc = "get"
  /\ u \in sync[i].keys
  /\ LET totals == IF playtime[u].has
                     THEN [sync[i].totals EXCEPT ![u] = Val(playtime[u].val)]
                     ELSE sync[i].totals
         keys == sync[i].keys \ {u}
         todo == {v \in DOMAIN totals : totals[v].has}
     IN SetSync(i, [sync[i] EXCEPT !.totals = totals, !.keys = keys,
                      !.todo = IF keys = {} THEN todo ELSE {},
                      !.pc = IF keys # {} THEN "get"
                             ELSE IF todo = {} THEN "sync" ELSE "backup"])
  /\ UNCHANGED <<stop, sring, teamDoc, lastSync>>
  /\ UNCHANGED <<now, online, playtime, deltatime, team, teamTotal, banned,
                 banReason, registry, profile, up, ring, http, upd, cleanup,
                 epoch, sess, tickAdds, banLog, mode>>

\* PlayerStore.UpdatePlayerPlaytime: $set current_playtime
UpdatePlayerPlaytime(u, v) ==
  [profile EXCEPT ![u] = IF @.has THEN [@ EXCEPT !.total = v] ELSE @]

\* a backup loop that a failed call ends
BackupRestStopOnError(todo, u, ok) == IF ok THEN todo \ {u} ELSE {}

\* the players the range loop still has to visit after the call for u: the
\* error of a call is logged and nothing else
BackupRest(todo, u, ok) == todo \ {u}

\* the backup loop: UpdatePlayerPlaytime(uuid, total) on the Player service;
\* a failed call is logged and the loop goes on
SyncBackup(i, u) ==
  /\ ~AnyDone
  /\ sync[i].pc = "backup"
  /\ u \in sync[i].todo
  /\ \E ok \in BOOLEAN :
       /\ profile' = IF ok THEN UpdatePlayerPlaytime(u, sync[i].totals[u].val)
                          ELSE profile
       /\ SetSync(i, [sync[i] EXCEPT !.todo = BackupRest(@, u, ok),
                        !.calls = @ + 1,
                        !.ok = @ /\ ok /\ profile[u].has,
                        !.pc = IF BackupRest(sync[i].todo, u, ok) = {}
                                 THEN "sync" ELSE "backup"])
  /\ UNCHANGED <<stop, sring, teamDoc, lastSync>>
  /\ UNCHANGED <<now, online, playtime, deltatime, team, teamTotal, banned,
                 banReason, registry, up, ring, http, upd, cleanup, epoch,
                 sess, tickAdds, banLog, mode>>

RECURSIVE SumTotals(_)
\* $sum of current_playtime over a group of profiles
SumTotals(S) ==
  IF S = {} THEN 0
  ELSE LET u == CHOOSE x \in S : TRUE
       IN profile[u].total + SumTotals(S \ {u})

\* PlayerStore.AggregateTeamPlaytimes: $group by team, $sum current_playtime
AggregateTeamPlaytimes ==
  [t \in Teams |->
     LET members == {u \in DOMAIN profile :
                       profile[u].has /\ profile[u].team = t}
     IN IF members = {} THEN NilV ELSE Val(SumTotals(members))]

\* no SyncTeamTotals invocation is between its aggregation and its last
\* team update
NoSyncRunning == \A j \in Instances : sync[j].pc # "update"

\* the SyncTeamTotals call: the Player service runs the aggregation, or the
\* call fails and the cycle ends; an empty result also ends the cycle
SyncAggregate(i) ==
  /\ ~AnyDone
  /\ sync[i].pc = "sync"
  /\ \E ok \in BOOLEAN :
       LET agg == AggregateTeamPlaytimes
           teams == {t \in Teams : agg[t].has}
           c == [sync[i] EXCEPT !.calls = @ + 1, !.ok = @ /\ ok]
       IN IF ~ok
            THEN /\ SetSync(i, [c EXCEPT !.pc = "idle"])
                 /\ UNCHANGED lastSync
            ELSE /\ SetSync(i, [c EXCEPT !.agg = agg, !.ttodo = teams,
                                  !.prof = profile,
                                  !.second = /\ lastSync.n > 0
                                             /\ lastSync.prof = profile
                                             /\ NoSyncRunning,
                                  !.pc = IF teams = {} THEN "idle" ELSE "update"])
                 /\ lastSync' = IF teams = {}
                                  THEN [n |-> lastSync.n + 1, map |-> agg,
                                        prof |-> profile]
                                  ELSE lastSync
  /\ UNCHANGED <<stop, sring, teamDoc>>
  /\ UNCHANGED <<now, online, playtime, deltatime, team, teamTotal, banned,
                 banReason, registry, profile, up, ring, http, upd, cleanup,
                 epoch, sess, tickAdds, banLog, mode>>

\* a team update that adds the new total to the stored one
UpdateTeamTotalPlaytimeAdding(d, v) ==
  [d EXCEPT !.has = TRUE, !.total_playtime_ticks = @ + v, !.last_updated = now]

\* TeamStore.UpdateTeamTotalPlaytime: upsert with
\* $set {total_playtime_ticks, last_updated: time.Now()}
UpdateTeamTotalPlaytime(d, v) ==
  [d EXCEPT !.has = TRUE, !.total_playtime_ticks = v, !.last_updated = now]

\* TeamService.SyncTeamTotals, the loop over the aggregation result; after
\* the last team the map is returned and the syncer turns to the cache
SyncUpdateTeam(i, t) ==
  /\ ~AnyDone
  /\ sync[i].pc = "update"
  /\ t \in sync[i].ttodo
  /\ teamDoc' = [teamDoc EXCEPT ![t] = UpdateTeamTotalPlaytime(@, sync[i].agg[t].val)]
  /\ IF sync[i].ttodo = {t}
       THEN /\ SetSync(i, [sync[i] EXCEPT !.pc = "set",
                             !.ttodo = {x \in Teams : sync[i].agg[x].has}])
            /\ lastSync' = [n |-> lastSync.n + 1, map |-> sync[i].agg,
                            prof |-> sync[i].prof]
       ELSE /\ SetSync(i, [sync[i] EXCEPT !.ttodo = @ \ {t}])
            /\ UNCHANGED lastSync
  /\ UNCHANGED <<stop, sring>>
  /\ UNCHANGED <<now, online, playtime, deltatime, team, teamTotal, banned,
                 banReason, registry, profile, up, ring, http, upd, cleanup,
                 epoch, sess, tickAdds, banLog, mode>>

\* a team total that is added to the cached one
SetTeamPlaytimeAdding(k, v) == IncrByFloat(k, v)

\* TeamPlaytimeStore.SetTeamPlaytime: SET team_total_playtime:{team}:
SetTeamPlaytime(k, v) == Val(v)

\* the loop over the returned team totals: overwrite the cached total
SyncSetTeam(i, t) ==
  /\ ~AnyDone
  /\ sync[i].pc = "set"
  /\ t \in sync[i].ttodo
  /\ teamTotal' = [teamTotal EXCEPT ![t] = SetTeamPlaytime(@, sync[i].agg[t].val)]
  /\ SetSync(i, [sync[i] EXCEPT !.ttodo = @ \ {t}, !.writes = @ + 1,
                   !.pc = IF sync[i].ttodo = {t} THEN "idle" ELSE "set"])
  /\ UNCHANGED <<stop, sring, teamDoc, lastSync>>
  /\ UNCHANGED <<now, online, playtime, deltatime, team, banned, banReason,
                 registry, profile, up, ring, http, upd, cleanup, epoch, sess,
                 tickAdds, banLog, mode>>

\* ----------------------------------------------------------- the systems
InitCache ==
  /\ now = StartTime
  /\ online = [u \in Players |-> Nil]
  /\ playtime = [u \in Players |-> NilV]
  /\ deltatime = [u \in Players |-> NilV]
  /\ team = [u \in Players |-> NilS]
  /\ teamTotal = [t \in Teams |-> NilV]
  /\ banned = [u \in Players |-> Nil]
  /\ banReason = [u \in Players |-> Nil]
  /\ registry = [i \in Instances |-> NilV]
  /\ stop = [i \in Instances |-> NotStopping]
  /\ http = [s \in Slots |-> Idle]
  /\ upd = [i \in Instances |-> UpdIdle]
  /\ cleanup = [u \in Players |-> <<>>]
  /\ epoch = 0
  /\ sess = [u \in Players |-> [base |-> 0, adds |-> 0, fromProfile |-> FALSE, n |-> 0]]
  /\ tickAdds = [u \in Players |-> [k \in 1..MaxTicks |-> 0]]
  /\ banLog = [u \in Players |-> [kind |-> "none", val |-> 0]]
  /\ sync = [i \in Instances |-> SyncIdle]
  /\ lastSync = [n |-> 0, map |-> [t \in Teams |-> NilV], prof |-> <<>>]

\* the stored profiles: none, or total 10.0 with or without a team
InitProfiles ==
  profile \in [Players -> {[has |-> FALSE, total |-> 0, team |-> "", num |-> 0]}
                          \cup {[has |-> TRUE, total |-> ProfileTotal, team |-> t,
                                 num |-> IF t = "" THEN 0 ELSE 1] :
                                  t \in Teams \cup {""}}]

\* the team documents: EnsureTeamsExist created them at the start of the
\* Player service, and every stored profile was counted when it was created
TeamDocOf(t) ==
  [has |-> TRUE,
   player_count |-> Cardinality({u \in Players : profile[u].has /\ profile[u].team = t}),
   total_playtime_ticks |-> 0,
   last_updated |-> StartTime]

\* one Game instance, started and alone on its ring; requests one at a time
Init ==
  /\ InitCache
  /\ InitProfiles
  /\ up = [i \in Instances |-> i = "gA"]
  /\ ring = [i \in Instances |-> IF i = "gA" THEN {"gA"} ELSE {}]
  /\ sring = [i \in Instances |-> IF i = "gA" THEN {"gA"} ELSE {}]
  /\ teamDoc = [t \in Teams |-> TeamDocOf(t)]
  /\ mode = "serial"

OnlineSteps(s) ==
  \/ OnlineProfile(s) \/ OnlineSetTotal(s) \/ OnlineSetDelta(s)
  \/ OnlineSetTeam(s) \/ OnlineSetOnline(s)

OfflineSteps(s) ==
  \/ OffGet(s) \/ OffGetTotal(s) \/ OffSetTotal(s) \/ OffSetDelta(s)
  \/ OffGetTeam(s) \/ OffIncrTeam(s) \/ OffDelOnline(s) \/ OffPush(s)
  \/ OffDelTeam(s)

UpdSteps(i) ==
  \/ UpdScan(i) \/ (\E u \in Players : UpdGetDelta(i, u))
  \/ UpdDelDelta(i) \/ UpdGetTeam(i) \/ UpdExec(i)

\* sessions and the updater of the single instance
Next ==
  \/ Tick
  \/ AdvanceEpoch
  \/ \E s \in Slots, u \in Players : OnlineStart(s, u)
  \/ \E s \in Slots, u \in Players : OfflineStart(s, u)
  \/ \E s \in Slots : OnlineSteps(s) \/ OfflineSteps(s) \/ Return(s)
  \/ \E i \in Instances : UpdSteps(i)

Spec == Init /\ [][Next]_vars

\* sessions and bans, no updater
NextBan ==
  \/ Tick
  \/ \E u \in Players : CleanupRun(u)
  \/ \E s \in Slots, u \in Players : OnlineStart(s, u)
  \/ \E s \in Slots, u \in Players : OfflineStart(s, u)
  \/ \E s \in Slots, u \in Players, d \in BanDurations, r \in BanReasons :
        BanStart(s, u, d, r)
  \/ \E s \in Slots, u \in Players : UnbanStart(s, u)
  \/ \E s \in Slots : BanSetReason(s) \/ BanIsOnline(s)
  \/ \E s \in Slots : OnlineSteps(s) \/ OfflineSteps(s) \/ Return(s)

SpecBan == Init /\ [][NextBan]_vars

CreateSteps(s) == CreateAssign(s) \/ CreateIncr(s) \/ CreateInsert(s)

\* sessions, heartbeat refreshes and delta lookups of the players, and the
\* creation of their profiles
NextSession ==
  \/ Tick
  \/ \E s \in Slots, u \in Players : CreateStart(s, u)
  \/ \E s \in Slots : CreateSteps(s)
  \/ \E s \in Slots, u \in Players : OnlineStart(s, u)
  \/ \E s \in Slots, u \in Players : OfflineStart(s, u)
  \/ \E s \in Slots, u \in Players : RefreshOnline(s, u)
  \/ \E s \in Slots, u \in Players : GetDelta(s, u)
  \/ \E s \in Slots : OnlineSteps(s) \/ OfflineSteps(s) \/ Return(s)

SpecSession == Init /\ [][NextSession]_vars

\* the profile ids asking the Player service for a profile
Uuids == {"p1", "p2", "p3", "p4"}

\* the ids that ask under each kind of run
Callers(m) ==
  IF m = "serial" THEN Uuids
  ELSE IF m = "conc" THEN {"p1", "p2", "p3"}
  ELSE {"p1", "p2"}

\* the Player service after EnsureTeamsExist(DefaultTeams): no profile, the
\* configured teams empty, no document for any other team; requests come
\* one at a time, or overlap, or one at a time against a failing store
InitPlayerService ==
  /\ InitCache
  /\ mode \in {"serial", "conc", "faults"}
  /\ profile = [u \in Callers(mode) |->
                  [has |-> FALSE, total |-> 0, team |-> "", num |-> 0]]
  /\ teamDoc = [t \in DefaultTeams \cup FallbackTeams |->
                  [has |-> t \in DefaultTeams, player_count |-> 0,
                   total_playtime_ticks |-> 0, last_updated |-> StartTime]]
  /\ up = [i \in Instances |-> FALSE]
  /\ ring = [i \in Instances |-> {}]
  /\ sring = [i \in Instances |-> {}]

NextPlayerService ==
  \/ \E s \in Slots, u \in DOMAIN profile : CreateStart(s, u)
  \/ \E s \in Slots : CreateSteps(s) \/ Return(s)

SpecPlayerService == InitPlayerService /\ [][NextPlayerService]_vars

\* the cache and the Player service right after Online(u) returned 200 for
\* every player, each with a stored profile (with or without a team); n
\* Online requests of the player are counted as admitted
InitOnlineN(n) ==
  /\ now = StartTime
  /\ profile \in [Players -> {[has |-> TRUE, total |-> ProfileTotal, team |-> t,
                                 num |-> IF t = "" THEN 0 ELSE 1] :
                                t \in Teams \cup {""}}]
  /\ online = [u \in Players |-> Key(Unix(StartTime), StartTime + OnlineTTL)]
  /\ playtime = [u \in Players |-> Val(profile[u].total)]
  /\ deltatime = [u \in Players |-> Val(One)]
  /\ team = [u \in Players |->
               IF profile[u].team # "" THEN Str(profile[u].team) ELSE NilS]
  /\ teamTotal = [t \in Teams |-> NilV]
  /\ banned = [u \in Players |-> Nil]
  /\ banReason = [u \in Players |-> Nil]
  /\ registry = [i \in Instances |-> NilV]
  /\ stop = [i \in Instances |-> NotStopping]
  /\ http = [s \in Slots |-> Idle]
  /\ upd = [i \in Instances |-> UpdIdle]
  /\ cleanup = [u \in Players |-> <<>>]
  /\ epoch = 0
  /\ sess = [u \in Players |-> [base |-> profile[u].total, adds |-> 0,
                                fromProfile |-> TRUE, n |-> n]]
  /\ tickAdds = [u \in Players |-> [k \in 1..MaxTicks |-> 0]]
  /\ banLog = [u \in Players |-> [kind |-> "none", val |-> 0]]
  /\ sync = [i \in Instances |-> SyncIdle]
  /\ lastSync = [n |-> 0, map |-> [t \in Teams |-> NilV], prof |-> <<>>]
  /\ up = [i \in Instances |-> i = "gA"]
  /\ ring = [i \in Instances |-> IF i = "gA" THEN {"gA"} ELSE {}]
  /\ sring = [i \in Instances |-> IF i = "gA" THEN {"gA"} ELSE {}]
  /\ teamDoc = [t \in Teams |-> TeamDocOf(t)]
  /\ mode = "serial"

\* the Online request of the open session counted
InitOnline == InitOnlineN(1)

\* the same state at the start of a behaviour in which the players may call
\* Online again
InitReOnline == InitOnlineN(0)

\* sessions, heartbeat refreshes and the updater of the single instance
NextReOnline ==
  \/ Next
  \/ \E s \in Slots, u \in Players : RefreshOnline(s, u)

SpecReOnline == InitReOnline /\ [][NextReOnline]_vars

\* the open sessions end while the updater of the single instance ticks
NextOffline ==
  \/ Tick
  \/ AdvanceEpoch
  \/ \E s \in Slots, u \in Players : OfflineStart(s, u)
  \/ \E s \in Slots : OfflineSteps(s) \/ Return(s)
  \/ UpdSteps("gA")

SpecOffline == InitOnline /\ [][NextOffline]_vars

\* the updater while no Offline runs: the delta of an online player stays
\* positive, so the branch deleting a non-positive delta is never entered
UpdStepsOnline(i) ==
  \/ UpdScan(i) \/ (\E u \in Players : UpdGetDelta(i, u))
  \/ UpdGetTeam(i) \/ UpdExec(i)

\* the cluster while the players stay online: instances start and crash,
\* heartbeat, sweep the registry and rebuild their rings, and every live
\* instance runs its updater
NextTick ==
  \/ Tick
  \/ AdvanceEpoch
  \/ \E i \in Instances : StartInstance(i) \/ CrashInstance(i)
  \/ \E i \in Instances : RegisterService(i) \/ PerformCleanup(i) \/ UpdateRing(i)
  \/ \E i \in Instances : UpdStepsOnline(i)

SpecTick == InitOnline /\ [][NextTick]_vars

\* every player online, each with a profile that CreateProfile put on a team
InitOne ==
  /\ InitOnline
  /\ \A u \in Players : profile[u].team \in Teams

SyncSteps(i) ==
  \/ SyncBegin(i) \/ SyncScan(i) \/ (\E u \in DOMAIN playtime : SyncGet(i, u))
  \/ (\E u \in DOMAIN playtime : SyncBackup(i, u)) \/ SyncAggregate(i)
  \/ (\E t \in Teams : SyncUpdateTeam(i, t)) \/ (\E t \in Teams : SyncSetTeam(i, t))

\* one Game instance with its registrar, its two assignment managers, its
\* updater and its syncer; it may crash and start again
NextOne ==
  \/ Tick
  \/ AdvanceEpoch
  \/ StartInstance("gA") \/ CrashInstance("gA")
  \/ RegisterService("gA") \/ PerformCleanup("gA")
  \/ UpdateRing("gA") \/ SyncUpdateRing("gA")
  \/ UpdStepsOnline("gA")
  \/ SyncSteps("gA")

SpecOne == InitOne /\ [][NextOne]_vars

\* two instances, each alone on its rings (no ring was rebuilt yet), after
\* the updater of gA ran k tick periods over the online players and gB
\* started: the cache is k increments ahead of the stored profiles
InitSync ==
  \E k \in 0..MaxTicks :
    /\ now = StartTime
    /\ profile \in [Players -> {[has |-> TRUE, total |-> ProfileTotal, team |-> t,
                                 num |-> IF t = "" THEN 0 ELSE 1] :
                                  t \in Teams}]
    /\ online = [u \in Players |-> Key(Unix(StartTime), StartTime + OnlineTTL)]
    /\ playtime = [u \in Players |-> Val(profile[u].total + k * One)]
    /\ deltatime = [u \in Players |-> Val(One)]
    /\ team = [u \in Players |-> Str(profile[u].team)]
    /\ teamTotal = [t \in Teams |->
                      LET m == Cardinality({u \in Players : profile[u].team = t})
                      IN IF k * m = 0 THEN NilV ELSE Val(k * m * One)]
    /\ banned = [u \in Players |-> Nil]
    /\ banReason = [u \in Players |-> Nil]
    /\ registry = [i \in Instances |-> NilV]
    /\ stop = [i \in Instances |-> NotStopping]
    /\ http = [s \in Slots |-> Idle]
    /\ upd = [i \in Instances |-> [UpdIdle EXCEPT !.tick = k]]
    /\ cleanup = [u \in Players |-> <<>>]
    /\ epoch = k
    /\ sess = [u \in Players |-> [base |-> profile[u].total, adds |-> k,
                                  fromProfile |-> TRUE, n |-> 1]]
    /\ tickAdds = [u \in Players |-> [j \in 1..MaxTicks |-> IF j <= k THEN 1 ELSE 0]]
    /\ banLog = [u \in Players |-> [kind |-> "none", val |-> 0]]
    /\ sync = [i \in Instances |-> SyncIdle]
    /\ lastSync = [n |-> 0, map |-> [t \in Teams |-> NilV], prof |-> <<>>]
    /\ up = [i \in Instances |-> TRUE]
    /\ ring = [i \in Instances |-> {i}]
    /\ sring = [i \in Instances |-> {i}]
    /\ teamDoc = [t \in Teams |-> TeamDocOf(t)]
    /\ mode = "serial"

\* the syncers of the two instances while no updater tick falls in
NextSync ==
  \/ Tick
  \/ \E i \in Instances : SyncSteps(i)

SpecSync == InitSync /\ [][NextSync]_vars

\* ------------------------------------------------------------ properties
Done(s, op) == http[s].pc = "done" /\ http[s].op = op

\* every ban request for u has returned
BanReturned(u) ==
  \A s \in Slots : (http[s].op = "ban" /\ http[s].u = u) => http[s].pc = "done"

\* C1: a session Online -> k ticks -> Offline leaves the durable total equal
\* to the total at Online plus k * 1.0 (the profile was loaded at Online and
\* the update at Offline reached the Player service)
C1_SessionAddsTicksOnly ==
  \A s \in Slots :
    (Done(s, "offline") /\ http[s].status = 200 /\ http[s].pushOk
       /\ sess[http[s].u].fromProfile)
    => profile[http[s].u].total
         = sess[http[s].u].base + sess[http[s].u].adds * One

\* C3: when Offline returns for a player that was online, none of the keys
\* online, playtime, deltatime, team of that player exists
C3_OfflineClearsSessionKeys ==
  \A s \in Slots :
    (Done(s, "offline") /\ http[s].wasOnline)
    => /\ ~online[http[s].u].has
       /\ ~playtime[http[s].u].has
       /\ ~deltatime[http[s].u].has
       /\ ~team[http[s].u].has

\* C4: an Online request made while the player is banned is answered 403 and
\* leaves the online, playtime, deltatime and team keys as they were
C4_BannedOnlineRejected ==
  \A s \in Slots :
    (Done(s, "online") /\ http[s].sawBan)
    => /\ http[s].status = 403
       /\ SessionKeys(http[s].u) = http[s].pre

C4_Witness ==
  \E s \in Slots :
    /\ Done(s, "online") /\ http[s].sawBan /\ http[s].status = 403
    /\ http[s].pre[2].has

\* C5: when a Ban that found the player online returns, the accumulated
\* playtime (the value of playtime:{u}:) has been sent to the Player service
\* and the online key is gone; an Online made under an active ban is refused
C5_BanForcesOffline ==
  \A s \in Slots :
    /\ (Done(s, "ban") /\ http[s].forced)
       => /\ http[s].pushed
          /\ http[s].newTotal = http[s].cur
          /\ ~online[http[s].u].has
    /\ (Done(s, "online") /\ http[s].sawBan) => http[s].status = 403

\* C6: after Ban(u, t, r) has returned and while no Unban was requested,
\* IsBanned(u) is true at every time before t
C6_TempBanHoldsUntilExpiry ==
  \A u \in Players :
    (banLog[u].kind = "temp" /\ BanReturned(u) /\ Unix(now) < banLog[u].val)
    => IsPlayerBanned(u).banned

\* C7: when Unban returns successfully, the ban record and the ban reason
\* are absent and IsBanned is false
C7_UnbanClearsBan ==
  \A s \in Slots :
    (Done(s, "unban") /\ http[s].status = 200)
    => /\ ~banned[http[s].u].has
       /\ ~banReason[http[s].u].has
       /\ ~IsPlayerBanned(http[s].u).banned

C7_Witness ==
  \E s \in Slots :
    /\ Done(s, "unban") /\ http[s].status = 200
    /\ http[s].pre[1].has /\ http[s].pre[2].has
    /\ ~banned[http[s].u].has

\* C8: for a temporary ban IsBanned is false from the expiry second on, and
\* the ban keys go away by lazy cleanup or TTL: once the record is gone and
\* no cleanup is pending, the reason key is gone or is due to expire
C8_TempBanLapses ==
  \A u \in Players :
    (banLog[u].kind = "temp" /\ BanReturned(u))
    => /\ Unix(now) >= banLog[u].val => ~IsPlayerBanned(u).banned
       /\ (~banned[u].has /\ cleanup[u] = <<>>)
            => (~banReason[u].has \/ banReason[u].exp # NoTTL)

\* C9: after a permanent Ban has returned, IsBanned is true until an Unban
\* (or another Ban) is requested
C9_PermanentBanHolds ==
  \A u \in Players :
    (banLog[u].kind = "perm" /\ BanReturned(u)) => IsPlayerBanned(u).banned

Live == {i \in Instances : up[i]}

\* C2: when two instances both hold themselves responsible for an online
\* uuid and run the increment for it concurrently, the stored delta is added
\* to playtime:{uuid}: at most once in that tick (and an updater reaches the
\* increment only with a delta it read)
C2_DeltaAddedOncePerTick ==
  /\ \A u \in Players : \A k \in 1..MaxTicks : tickAdds[u][k] <= 1
  /\ \A i \in Instances : upd[i].pc \in {"getteam", "exec"} => upd[i].d > 0

C11_ActiveIffFresh ==
  GetActiveServices =
    {j \in Instances :
       registry[j].has /\ now - registry[j].val * SubSec <= HeartbeatTTL}

\* C12: with two instances, once A is dead and B, alive and heartbeating,
\* holds a ring without A, B's isResponsible(sentinel) returns true (so that
\* B's next syncer cycle runs the backup)
C12_SurvivorOwnsSentinel ==
  \A a, b \in Instances :
    (/\ a # b
     /\ ~up[a] /\ up[b]
     /\ registry[b] = Val(Unix(now))
     /\ a \notin ring[b])
      => LET r == IsResponsible(b, SyncTaskKey) IN ~r.err /\ r.resp

\* C13: a syncer cycle whose isResponsible("global_playtime_sync_task")
\* returned false or failed ended at once: it made no Player service call
\* and wrote no cache key
C13_NonLeaderCycleIsNoOp ==
  \A i \in Instances :
    (sync[i].n > 0 /\ (sync[i].err \/ ~sync[i].resp))
      => sync[i].pc = "idle" /\ sync[i].calls = 0 /\ sync[i].writes = 0

C13_Witness ==
  \E i \in Instances :
    /\ up[i] /\ sync[i].n > 0 /\ sync[i].err /\ sync[i].pc = "idle"
    /\ \E u \in Players : playtime[u].has /\ profile[u].total # playtime[u].val

\* what the complete cycle of a single leader leaves behind: every stored
\* profile total equals the cached total of the player, and every cached
\* team total equals the sum of the profile totals of the team
OneCycleResult ==
  /\ \A u \in Players :
       (playtime[u].has /\ profile[u].has) => profile[u].total = playtime[u].val
  /\ \A t \in Teams :
       AggregateTeamPlaytimes[t].has => teamTotal[t] = AggregateTeamPlaytimes[t]

SecondSyncStep(i) ==
  /\ sync[i].pc = "update"
  /\ sync[i].second
  /\ lastSync.prof = sync[i].prof
  /\ sync'[i] # sync[i]

\* C15: the second of two consecutive SyncTeamTotals invocations, with no
\* profile change in between, returns the same team-to-total map as the
\* first and leaves every team document unchanged
C15_SecondSyncChangesNothing ==
  [][\A i \in Instances :
       SecondSyncStep(i) => (sync[i].agg = lastSync.map /\ teamDoc' = teamDoc)]_vars

\* C15 as the code has it: the map is the same and the second invocation
\* keeps the total and the player count of every team document; it sets
\* last_updated to the time of the invocation
C15_SecondSyncKeepsTotals ==
  [][\A i \in Instances :
       SecondSyncStep(i) =>
         /\ sync[i].agg = lastSync.map
         /\ \A t \in Teams :
              /\ teamDoc'[t].has = teamDoc[t].has
              /\ teamDoc'[t].total_playtime_ticks = teamDoc[t].total_playtime_ticks
              /\ teamDoc'[t].player_count = teamDoc[t].player_count
              /\ teamDoc'[t].last_updated \in {teamDoc[t].last_updated, now}]_vars

C15_Witness ==
  \E i \in Instances :
    /\ sync[i].second /\ sync[i].pc = "set"
    /\ lastSync.n >= 2
    /\ \E t \in Teams : teamDoc[t].last_updated > StartTime
                          /\ teamDoc[t].total_playtime_ticks > ProfileTotal

\* C16: an Offline request for a uuid that has no online key is answered 200
\* and is a no-op: the session keys are as they were and no update was sent
\* to the Player service
C16_OfflineWithoutSessionIsNoOp ==
  \A s \in Slots :
    (Done(s, "offline") /\ ~http[s].wasOnline)
    => /\ http[s].status = 200
       /\ SessionKeys(http[s].u) = http[s].pre
       /\ ~http[s].pushed

\* C17: a heartbeat refresh for a uuid whose online key is absent returns
\* success and does not create the key; for a present key it sets the key's
\* TTL to OnlineTTL
C17_RefreshOnline ==
  \A s \in Slots :
    Done(s, "refresh")
    => /\ http[s].status = 200
       /\ IF http[s].wasOnline
            THEN /\ online[http[s].u].has
                 /\ online[http[s].u].exp = now + OnlineTTL
                 /\ online[http[s].u].val = http[s].pre[1].val
            ELSE ~online[http[s].u].has
       /\ <<playtime[http[s].u], deltatime[http[s].u], team[http[s].u]>>
            = <<http[s].pre[2], http[s].pre[3], http[s].pre[4]>>

\* C18: GetDelta(u) answers 200 with 1.0 when deltatime:{u}: is absent and
\* with the stored value when the key is present
C18_GetDeltaDefaultsToOne ==
  \A s \in Slots :
    Done(s, "delta")
    => /\ http[s].status = 200
       /\ http[s].val = IF deltatime[http[s].u].has
                          THEN deltatime[http[s].u].val
                          ELSE One

C18_Witness ==
  \E s \in Slots :
    /\ Done(s, "delta")
    /\ deltatime[http[s].u].has
    /\ http[s].val = deltatime[http[s].u].val
    /\ http[s].val # One

\* C19: while the ring of an instance has no members its isResponsible is
\* false for every key; an updater tick it begins then increments no player
\* (it picks no uuid and touches no total), and a syncer cycle it begins then
\* performs no backup and no team overwrite
C19_EmptyRingDoesNothing ==
  [][\A i \in Instances :
       /\ ring[i] = {} => \A k \in RingKeys : ~IsResponsible(i, k).resp
       /\ sring[i] = {} => ~SyncerIsResponsible(i).resp
       /\ (ring[i] = {} /\ up[i] /\ up'[i] /\ upd[i].pc = "idle" /\ upd'[i] # upd[i])
            => /\ upd'[i].pc = "idle" /\ upd'[i].todo = {}
               /\ playtime' = playtime /\ teamTotal' = teamTotal
       /\ (sring[i] = {} /\ up[i] /\ up'[i] /\ sync[i].pc = "idle" /\ sync'[i] # sync[i])
            => /\ sync'[i].pc = "idle"
               /\ sync'[i].calls = 0 /\ sync'[i].writes = 0
               /\ profile' = profile /\ teamTotal' = teamTotal /\ teamDoc' = teamDoc
    ]_vars

C19_Witness ==
  \E i \in Instances :
    /\ up[i] /\ ring[i] = {} /\ sring[i] = {}
    /\ epoch > 0 /\ upd[i].tick = epoch /\ upd[i].pc = "idle"
    /\ \E u \in Players : online[u].has /\ tickAdds[u][epoch] = 0
    /\ sync[i].n > 0 /\ sync[i].err /\ sync[i].pc = "idle"

\* C20: CreateProfile for a uuid that already has a profile is answered 409
\* (AlreadyExists) and changes neither that profile nor any team document
\* (player_count included)
C20_CreateExistingRejected ==
  \A s \in Slots :
    (Done(s, "create") /\ http[s].pre[1].has)
    => /\ http[s].status = 409
       /\ profile[http[s].u] = http[s].pre[1]
       /\ teamDoc = http[s].pre[2]

C20_Witness ==
  \E s \in Slots :
    /\ Done(s, "create") /\ http[s].pre[1].has /\ http[s].status = 409
    /\ \E t \in Teams : teamDoc[t].player_count > 0

\* the assignment step of a creation in slot s picks a team whose
\* player_count is minimal among the team documents at that moment
AssignIsMinimal(s) ==
  (http[s].pc = "cr_team" /\ http'[s].pc = "cr_incr")
    => /\ http'[s].profTeam \in GetAllTeams
       /\ \A x \in GetAllTeams :
            teamDoc[http'[s].profTeam].player_count <= teamDoc[x].player_count

\* the player_counts of any two teams differ by at most 1
Balanced ==
  \A t, x \in GetAllTeams :
    teamDoc[t].player_count - teamDoc[x].player_count \in {-1, 0, 1}

C22_TeamNumbersUnique ==
  \A u, v \in DOMAIN profile :
    (u # v /\ profile[u].has /\ profile[v].has /\ profile[u].team = profile[v].team)
      => profile[u].num # profile[v].num

\* two creations that both read the team at count 0 were stored with the
\* numbers 1 and 2
C22_Witness ==
  /\ mode = "conc"
  /\ \E s \in Slots, v \in DOMAIN profile :
       LET u == http[s].u
       IN /\ Done(s, "create") /\ http[s].status = 201
          /\ http[s].pre[2][profile[u].team].player_count = 0
          /\ profile[u].num = 2
          /\ v # u /\ profile[v].has
          /\ profile[v].team = profile[u].team /\ profile[v].num = 1

C24_PlaytimeNeverDecreases ==
  [][\A u \in Players :
       (online[u].has /\ online'[u].has /\ playtime[u].has /\ playtime'[u].has)
         => playtime'[u].val >= playtime[u].val]_vars

\* C25: an Online(u) that passed the ban check and read the profile
\* answers 200 and leaves playtime:{u}: at the profile's stored total,
\* deltatime:{u}: at 1.0, team:{u}: at the profile's team (no key for a
\* profile without a team) and online:{u}: present with TTL OnlineTTL
C25_OnlineLoadsProfile ==
  \A s \in Slots :
    (Done(s, "online") /\ http[s].profOk)
      => LET u == http[s].u
         IN /\ http[s].status = 200
            /\ playtime[u] = Val(profile[u].total)
            /\ deltatime[u] = Val(One)
            /\ team[u] = IF profile[u].team # "" THEN Str(profile[u].team) ELSE NilS
            /\ online[u].has
            /\ online[u].exp = now + OnlineTTL

C25_Witness ==
  \E s \in Slots :
    /\ Done(s, "online") /\ http[s].profOk /\ http[s].status = 200
    /\ team[http[s].u].has
    /\ playtime[http[s].u].val = ProfileTotal

\* C26: an Online(u) that passed the ban check and could not read the
\* profile answers 200 and leaves playtime:{u}: at 0, deltatime:{u}: at
\* 1.0, no team:{u}: key and online:{u}: present
C26_OnlineWithoutProfile ==
  \A s \in Slots :
    (Done(s, "online") /\ http[s].status # 403 /\ ~http[s].profOk)
      => LET u == http[s].u
         IN /\ http[s].status = 200
            /\ playtime[u] = Val(0)
            /\ deltatime[u] = Val(One)
            /\ ~team[u].has
            /\ online[u].has

\* C27: an Offline(u) whose update of the Player service failed still
\* answers 200 and leaves none of the session keys online, playtime,
\* deltatime, team of u, so that the next Online(u) starts from a clean
\* cache
C27_OfflineTearsDownOnPushFailure ==
  \A s \in Slots :
    (Done(s, "offline") /\ http[s].pushed /\ ~http[s].pushOk)
      => /\ http[s].status = 200
         /\ SessionKeys(http[s].u) = <<Nil, NilV, NilV, NilS>>

\* the sum of the stored totals of the profiles assigned to team t
StoredTeamSum(t) ==
  SumTotals({u \in Players : profile[u].has /\ profile[u].team = t})

\* the step of instance i that writes the last cached team total of its
\* cycle
CycleEnds(i) ==
  /\ sync[i].pc = "set" /\ sync'[i].pc = "idle"
  /\ sync'[i].writes = sync[i].writes + 1

\* C28: when the leader's cycle, whose SyncTeamTotals call succeeded, ends,
\* the cached total of every team the call returned equals the sum of the
\* stored profile totals of the profiles assigned to that team
C28_CacheTeamTotalIsProfileSum ==
  [][\A i \in Instances :
       (CycleEnds(i) /\ IsLeader(sync[i]))
         => \A t \in Teams :
              sync[i].agg[t].has => teamTotal'[t] = Val(StoredTeamSum(t))']_vars

\* the value of a float key, 0 while the key is absent
Amount(k) == IF k.has THEN k.val ELSE 0

\* the step of the updater of instance i that executes the pipeline (the
\* instance does not crash instead)
PipelineStep(i) == upd[i].pc = "exec" /\ upd'[i] # upd[i] /\ up'[i]

\* the step of the Offline request in slot s that increments the team total
OfflineTeamStep(s) == http[s].pc = "off_incrteam" /\ http'[s] # http[s]

C30_NoTeamKeyNoTeamIncrement ==
  [][\A i \in Instances :
       (PipelineStep(i) /\ ~upd[i].tm.has)
         => /\ upd[i].d > 0
            /\ playtime'[upd[i].cur] = Val(Amount(playtime[upd[i].cur]) + upd[i].d)
            /\ teamTotal' = teamTotal]_vars

C30_Witness ==
  \E u \in Players :
    /\ online[u].has /\ ~team[u].has
    /\ sess[u].adds > 0
    /\ playtime[u] = Val(ProfileTotal + sess[u].adds * One)
    /\ \A t \in Teams : ~teamTotal[t].has

\* the step in which the updater of instance i reads the delta of u
DeltaReadStep(i, u) ==
  /\ upd[i].pc = "loop" /\ u \in upd[i].todo
  /\ upd'[i] # upd[i] /\ up'[i]
  /\ upd'[i].cur = u \/ u \notin upd'[i].todo

\* the step in which the updater of instance i deletes a delta it read
DeltaDeleteStep(i) == upd[i].pc = "deldelta" /\ upd'[i] # upd[i] /\ up'[i]

\* C31: the tick of an updater for a player whose delta key is missing or
\* not positive changes neither the player's total nor a team total, and
\* leaves no delta key
C31_NoDeltaNoIncrement ==
  /\ [][\A i \in Instances, u \in Players :
          (DeltaReadStep(i, u) /\ (~deltatime[u].has \/ deltatime[u].val <= 0))
            => /\ playtime' = playtime /\ teamTotal' = teamTotal
               /\ IF deltatime[u].has
                    THEN upd'[i].pc = "deldelta" /\ upd'[i].cur = u
                    ELSE ~deltatime'[u].has /\ u \notin upd'[i].todo]_vars
  /\ [][\A i \in Instances :
          DeltaDeleteStep(i)
            => /\ playtime' = playtime /\ teamTotal' = teamTotal
               /\ ~deltatime'[upd[i].cur].has
               /\ upd[i].cur \notin upd'[i].todo]_vars

\* the second tick has finished for a player who is online and has no
\* delta key: it found the key missing or deleted it
C31_Witness ==
  \E i \in Instances, u \in Players :
    /\ up[i] /\ upd[i].tick >= 2 /\ upd[i].pc = "idle"
    /\ online[u].has /\ ~deltatime[u].has
    /\ playtime[u].has

\* a step in which the updater of instance i starts a tick: it scans the
\* online keys and fills playersToUpdate
ScanStep(i) ==
  /\ up[i] /\ up'[i]
  /\ upd[i].pc = "idle"
  /\ upd'[i].tick # upd[i].tick

\* the uuids whose online key exists and that the ring of i maps to i
OwnedOnline(i) ==
  {u \in Players : online[u].has /\ ring[i] # {} /\ RingGet(ring[i], u) = i}

IsPlayerOnline(u) == online[u].has

\* the open session of InitOnline, its last heartbeat refresh so long ago
\* that the online key has one clock unit left
InitExpiring ==
  /\ now = StartTime
  /\ profile \in [Players -> {[has |-> TRUE, total |-> ProfileTotal, team |-> t,
                                 num |-> IF t = "" THEN 0 ELSE 1] :
                                t \in Teams \cup {""}}]
  /\ online = [u \in Players |->
                 Key(Unix(StartTime + 1 - OnlineTTL), StartTime + 1)]
  /\ playtime = [u \in Players |-> Val(profile[u].total)]
  /\ deltatime = [u \in Players |-> Val(One)]
  /\ team = [u \in Players |->
               IF profile[u].team # "" THEN Str(profile[u].team) ELSE NilS]
  /\ teamTotal = [t \in Teams |-> NilV]
  /\ banned = [u \in Players |-> Nil]
  /\ banReason = [u \in Players |-> Nil]
  /\ registry = [i \in Instances |-> NilV]
  /\ stop = [i \in Instances |-> NotStopping]
  /\ http = [s \in Slots |-> Idle]
  /\ upd = [i \in Instances |-> UpdIdle]
  /\ cleanup = [u \in Players |-> <<>>]
  /\ epoch = 0
  /\ sess = [u \in Players |-> [base |-> profile[u].total, adds |-> 0,
                                fromProfile |-> TRUE, n |-> 1]]
  /\ tickAdds = [u \in Players |-> [k \in 1..MaxTicks |-> 0]]
  /\ banLog = [u \in Players |-> [kind |-> "none", val |-> 0]]
  /\ sync = [i \in Instances |-> SyncIdle]
  /\ lastSync = [n |-> 0, map |-> [t \in Teams |-> NilV], prof |-> <<>>]
  /\ up = [i \in Instances |-> i = "gA"]
  /\ ring = [i \in Instances |-> IF i = "gA" THEN {"gA"} ELSE {}]
  /\ sring = [i \in Instances |-> IF i = "gA" THEN {"gA"} ELSE {}]
  /\ teamDoc = [t \in Teams |-> TeamDocOf(t)]
  /\ mode = "serial"

\* the heartbeat refresh of the session arrives in time or not at all, while
\* the updater of the single instance ticks
NextExpiry ==
  \/ Tick
  \/ AdvanceEpoch
  \/ \E s \in Slots, u \in Players : RefreshOnline(s, u)
  \/ \E s \in Slots : Return(s)
  \/ UpdStepsOnline("gA")

SpecExpiry == InitExpiring /\ [][NextExpiry]_vars

\* C33: an online key is gone once its TTL has run out without a refresh, so
\* IsPlayerOnline answers false; a tick whose scan comes after that leaves
\* the uuid out of playersToUpdate, nothing puts it back before the next
\* scan, and a step that changes playtime:{u}: or a team total belongs to an
\* updater that has u on the list of a scan made before
C33_ExpiredNotCounted ==
  /\ [](\A u \in Players :
          IsPlayerOnline(u) => online[u].exp = NoTTL \/ online[u].exp > now)
  /\ [][\A i \in Instances, u \in Players :
          /\ (ScanStep(i) /\ ~IsPlayerOnline(u)) => u \notin upd'[i].todo
          /\ (~ScanStep(i) /\ u \notin upd[i].todo) => u \notin upd'[i].todo]_vars
  /\ [][(playtime' # playtime \/ teamTotal' # teamTotal) =>
          \E i \in Instances :
            /\ upd[i].cur \in upd[i].todo
            /\ upd'[i] # upd[i]
            /\ playtime' = [playtime EXCEPT ![upd[i].cur] = playtime'[upd[i].cur]]]_vars

\* the key has expired; the updater, alone on its ring, has since run and
\* ended the current tick, and the player's total still is the one the
\* session started with although a positive delta is waiting
C33_Witness ==
  \E u \in Players :
    /\ ~IsPlayerOnline(u) /\ now > StartTime
    /\ up["gA"] /\ ring["gA"] = {"gA"}
    /\ epoch >= 1 /\ upd["gA"].tick = epoch /\ upd["gA"].pc = "idle"
    /\ deltatime[u] = Val(One)
    /\ playtime[u] = Val(profile[u].total)
    /\ \A t \in Teams : teamTotal[t] = NilV

\* the uuids of a cache that holds the totals of two players
Snapshot == {"u1", "u2"}

\* the instance gA, alone on its rings, after its updater ran k tick periods
\* over two players of the same team: the cache is k increments ahead of the
\* stored profiles
InitBackup ==
  \E k \in 0..MaxTicks :
    /\ now = StartTime
    /\ profile \in [Snapshot -> {[has |-> TRUE, total |-> ProfileTotal, team |-> t,
                                  num |-> 1] : t \in Teams}]
    /\ playtime = [u \in Snapshot |-> Val(profile[u].total + k * One)]
    /\ online = [u \in Players |-> Key(Unix(StartTime), StartTime + OnlineTTL)]
    /\ deltatime = [u \in Players |-> Val(One)]
    /\ team = [u \in Players |-> Str(profile[u].team)]
    /\ teamTotal = [t \in Teams |->
                      LET m == Cardinality({u \in Snapshot : profile[u].team = t})
                      IN IF k * m = 0 THEN NilV ELSE Val(k * m * One)]
    /\ banned = [u \in Players |-> Nil]
    /\ banReason = [u \in Players |-> Nil]
    /\ registry = [i \in Instances |-> NilV]
    /\ stop = [i \in Instances |-> NotStopping]
    /\ http = [s \in Slots |-> Idle]
    /\ upd = [i \in Instances |-> [UpdIdle EXCEPT !.tick = k]]
    /\ cleanup = [u \in Players |-> <<>>]
    /\ epoch = k
    /\ sess = [u \in Players |-> [base |-> profile[u].total, adds |-> k,
                                  fromProfile |-> TRUE, n |-> 1]]
    /\ tickAdds = [u \in Players |-> [j \in 1..MaxTicks |-> IF j <= k THEN 1 ELSE 0]]
    /\ banLog = [u \in Players |-> [kind |-> "none", val |-> 0]]
    /\ sync = [i \in Instances |-> SyncIdle]
    /\ lastSync = [n |-> 0, map |-> [t \in Teams |-> NilV], prof |-> <<>>]
    /\ up = [i \in Instances |-> i = "gA"]
    /\ ring = [i \in Instances |-> IF i = "gA" THEN {"gA"} ELSE {}]
    /\ sring = [i \in Instances |-> IF i = "gA" THEN {"gA"} ELSE {}]
    /\ teamDoc = [t \in Teams |->
                    [has |-> TRUE,
                     player_count |-> Cardinality({u \in Snapshot : profile[u].team = t}),
                     total_playtime_ticks |-> 0, last_updated |-> StartTime]]
    /\ mode = "serial"

\* the syncer of gA while no updater tick falls in
NextBackup ==
  \/ Tick
  \/ SyncSteps("gA")

\* the goroutine of the syncer is scheduled until its cycle has ended
SpecBackup == InitBackup /\ [][NextBackup]_vars /\ WF_vars(SyncSteps("gA"))

\* the players of the snapshot GetAllPlayerPlaytimes returned to instance i
Snapshotted(i) == {u \in DOMAIN sync[i].totals : sync[i].totals[u].has}

\* C34: when the backup loop of a leader hands over to the team phase, one
\* UpdatePlayerPlaytime call was made for every player of the snapshot,
\* however many of them failed; once the team phase has made its call the
\* cycle counts one call more; and a cycle that is in its backup loop always
\* gets to the team phase
C34_BackupLoopGoesOn ==
  /\ [](\A i \in Instances :
          /\ sync[i].pc = "backup" =>
               sync[i].calls = Cardinality(Snapshotted(i) \ sync[i].todo)
          /\ sync[i].pc = "sync" =>
               sync[i].calls = Cardinality(Snapshotted(i))
          /\ (sync[i].pc \in {"update", "set"} \/
              (sync[i].pc = "idle" /\ IsLeader(sync[i]) /\ sync[i].n >= 1)) =>
               sync[i].calls = Cardinality(Snapshotted(i)) + 1)
  /\ \A i \in Instances :
       (sync[i].pc = "backup") ~> (sync[i].pc \in {"update", "set", "idle"})

\* a cycle has ended after its team phase; the push of one player failed
\* (the stored total still is behind the snapshot), the push of the other
\* one went through
C34_Witness ==
  \E i \in Instances, u, v \in Snapshot :
    /\ u # v
    /\ sync[i].pc = "idle" /\ sync[i].n >= 1 /\ IsLeader(sync[i])
    /\ ~sync[i].ok
    /\ sync[i].totals[u].has /\ profile[u].total # sync[i].totals[u].val
    /\ sync[i].totals[v].has /\ profile[v].total = sync[i].totals[v].val
    /\ profile[v].total # ProfileTotal
    /\ sync[i].writes >= 1

\* the time that has passed since the heartbeat that wrote entry k, whose
\* last_seen holds whole seconds
EntryAge(k) == now - k.val * SubSec

\* C35: a step that removes a registry entry removes one whose last
\* heartbeat is more than HeartbeatTTL old (the model has no unparseable
\* entries); the entry of an instance that heartbeated within HeartbeatTTL
\* survives every cleanup pass
C35_CleanupOnlyStale ==
  [][\A j \in Instances :
       (registry[j].has /\ ~registry'[j].has) =>
         EntryAge(registry[j]) > HeartbeatTTL]_vars

\* the registrars of two running instances: they heartbeat, sweep the
\* registry, and are stopped gracefully
NextStop ==
  \/ Tick
  \/ \E i \in Instances : RegisterService(i) \/ PerformCleanup(i) \/ UpdateRing(i)
  \/ \E i \in Instances : StopSignal(i) \/ RunExit(i) \/ StopHDel(i)

SpecStop == InitSync /\ [][NextStop]_vars

\* C36: once Stop() of an instance's registrar has returned, the heartbeat
\* loop of that registrar has ended and the instance's field is, and stays,
\* absent from the registry hash
C36_StoppedStaysAbsent ==
  \A i \in Instances :
    stop[i].ret => (stop[i].done /\ ~registry[i].has)

\* Stop() has returned for one instance and the clock has moved on since
\* the start; the other instance, not stopping, holds a fresh entry
C36_Witness ==
  \E i, j \in Instances :
    /\ i # j
    /\ stop[i].ret /\ now > StartTime
    /\ registry[j].has /\ registry[j].val = Unix(now)
    /\ ~stop[j].sig

\* the Game service of Init with its HTTP requests served concurrently
InitRace ==
  /\ InitCache
  /\ InitProfiles
  /\ up = [i \in Instances |-> i = "gA"]
  /\ ring = [i \in Instances |-> IF i = "gA" THEN {"gA"} ELSE {}]
  /\ sring = [i \in Instances |-> IF i = "gA" THEN {"gA"} ELSE {}]
  /\ teamDoc = [t \in Teams |-> TeamDocOf(t)]
  /\ mode = "conc"

\* Online requests in slot 1 and permanent bans in slot 2, their steps
\* interleaving
NextRace ==
  \/ \E u \in Players : OnlineStart(1, u)
  \/ \E u \in Players, d \in {-1, 0} : BanStart(2, u, d, "")
  \/ BanIsOnline(2)
  \/ OnlineSteps(1) \/ OfflineSteps(2)
  \/ \E s \in Slots : Return(s)

SpecRace == InitRace /\ [][NextRace]_vars

\* C37: when an Online request for u returns while every Ban request for u
\* has returned and a ban was recorded, or a Ban request for u returns while
\* no Online request for u is in flight, u is not both actively banned and
\* online
C37_NeverBannedAndOnline ==
  \A s \in Slots, u \in Players :
    (/\ http[s].pc = "done" /\ http[s].u = u
     /\ \/ /\ http[s].op = "online" /\ http[s].status = 200
           /\ banLog[u].kind \in {"perm", "temp"}
        \/ /\ http[s].op = "ban" /\ http[s].status = 200
           /\ sess[u].n >= 1
     /\ \A x \in Slots : x # s => http[x].u # u)
      => ~(BanActive(u) /\ IsPlayerOnline(u))

\* C38: no step lowers the stored current_playtime of a profile
C38_DurableTotalNeverDecreases ==
  [][\A u \in DOMAIN profile :
       (profile[u].has /\ profile'[u].has) =>
         profile'[u].total >= profile[u].total]_vars

\* C39: whenever no CreateProfile call is between its steps, the
\* player_count of every team document is the number of stored profiles
\* assigned to that team
C39_PlayerCountIsProfileCount ==
  (\A s \in Slots : http[s].pc \in {"idle", "done"}) =>
    \A t \in DOMAIN teamDoc :
      teamDoc[t].has =>
        teamDoc[t].player_count =
          Cardinality({u \in DOMAIN profile :
                         profile[u].has /\ profile[u].team = t})

\* C40: while u is offline and no request for u is being served (the
\* Offline call that ended the session has returned), no step changes
\* playtime:{u}: or a team total
C40_NoIncrementAfterOffline ==
  [][\A u \in Players :
       (~IsPlayerOnline(u) /\ \A s \in Slots : http[s].u # u) =>
         /\ playtime'[u] = playtime[u]
         /\ teamTotal' = teamTotal]_vars

====
